---- MODULE Spec2Model ----
(***************************************************************************)
(* A model of the dkan-importer validation pipeline:                       *)
(*   data dictionary -> JSON schema (DataDictionary)                       *)
(*   JSON schema     -> validator + field schemas (ExcelValidator)         *)
(*   spreadsheet     -> parsed rows -> validation reports                  *)
(* Texts are sequences of one-character strings.                           *)
(***************************************************************************)
EXTENDS Integers, Sequences, FiniteSets, TLC

VARIABLES
    variant,             \* "lib" (importer-lib/src) or "model" (src/model)
    dict,                \* the raw data dictionary handed to the converter
    pc,                  \* position of the pipeline
    error,               \* the fatal error the pipeline ended with, or "none"
    properties,          \* the schema's "properties" map
    required_fields,     \* the schema's "required" list
    dupResult,           \* result of DataDictionary::check_duplicates
    field_schemas,       \* ExcelValidator.field_schemas
    workbook,            \* what opening the file and the sheet yields
    sheet,               \* the worksheet range: rows of cells, the first the header
    row_index,           \* process_excel_rows: enumerate() index of the next row
    headers,             \* ExcelValidator.headers
    rows,                \* ExcelValidator.rows / parsed_rows
    vidx,                \* validate_excel: index into rows of the current row
    row_value,           \* validate_excel: the row value being validated
    validation_reports,  \* ExcelValidator.validation_reports
    csv,                 \* the file export_to_csv has written, if it has
    calls,               \* the calls of validate_excel that have returned Ok
    remote               \* the DKAN site: what main has uploaded and registered

vars == <<variant, dict, pc, error, properties, required_fields,
          dupResult, field_schemas, workbook, sheet, row_index, headers, rows, vidx,
          row_value, validation_reports, csv, calls, remote>>

(***************************************************************************)
(* Bounds                                                                  *)
(***************************************************************************)
MaxFields == 2        \* fields of a dictionary given to the converter
MaxDupFields == 3     \* fields of a dictionary given to check_duplicates
MaxRows == 2          \* data rows of a sheet

(***************************************************************************)
(* Characters and texts                                                    *)
(***************************************************************************)
TAB == "\t"           \* a control character that is also whitespace
SOH == "<SOH>"        \* U+0001: a control character that is not whitespace

\* char::is_control
IsControl(c) == c \in {TAB, SOH}

\* char::is_whitespace (Unicode White_Space)
IsWhitespace(c) == c \in {" ", TAB}

\* Option<text> and Option<number>
None == [some |-> FALSE, v |-> <<>>]
NoneNum == [some |-> FALSE, v |-> 0]
Some(x) == [some |-> TRUE, v |-> x]

\* str::trim_end
RECURSIVE TrimEnd(_)
TrimEnd(s) ==
    IF s = <<>> THEN s
    ELSE IF IsWhitespace(s[Len(s)]) THEN TrimEnd(SubSeq(s, 1, Len(s) - 1))
    ELSE s

\* str::trim_start
RECURSIVE TrimStart(_)
TrimStart(s) ==
    IF s = <<>> THEN s
    ELSE IF IsWhitespace(s[1]) THEN TrimStart(Tail(s))
    ELSE s

\* str::trim
Trim(s) == TrimStart(TrimEnd(s))

\* str::ends_with('*')
EndsWithStar(s) == s # <<>> /\ s[Len(s)] = "*"

\* .chars().map(|c| if c.is_control() { ' ' } else { c })
ReplaceControl(s) == [i \in 1..Len(s) |-> IF IsControl(s[i]) THEN " " ELSE s[i]]

\* str::split_whitespace: the non-empty maximal runs of non-whitespace
RECURSIVE SplitWhitespace(_, _)
SplitWhitespace(s, cur) ==
    IF s = <<>> THEN (IF cur = <<>> THEN <<>> ELSE <<cur>>)
    ELSE IF IsWhitespace(s[1])
         THEN (IF cur = <<>> THEN <<>> ELSE <<cur>>) \o SplitWhitespace(Tail(s), <<>>)
         ELSE SplitWhitespace(Tail(s), Append(cur, s[1]))

\* [&str]::join(" ")
RECURSIVE JoinSpace(_)
JoinSpace(ws) ==
    IF ws = <<>> THEN <<>>
    ELSE IF Len(ws) = 1 THEN ws[1]
    ELSE ws[1] \o <<" ">> \o JoinSpace(Tail(ws))

normalize_stringKeepControl(value) ==
    Trim(JoinSpace(SplitWhitespace(value, <<>>)))

normalize_stringSplitFirst(value) ==
    Trim(ReplaceControl(JoinSpace(SplitWhitespace(value, <<>>))))

\* utils::normalize_string of the dkan_importer crate
normalize_string(value) ==
    Trim(JoinSpace(SplitWhitespace(ReplaceControl(value), <<>>)))

(***************************************************************************)
(* DataDictionary::convert_data_dictionary_to_json_schema                  *)
(***************************************************************************)
\* A field of the dictionary:
\*   name, title : None or Some(text)      (field.get(..).and_then(as_str))
\*   type        : None or Some(keyword)
\*   constraints : None or Some([required, minimum, maximum, pattern])
\*     required  : "absent", "true", "false" or "other" (a non-boolean value)
\*     minimum, maximum : NoneNum or Some(integer)
\*     pattern   : "absent", "ok" or "bad" (a text no regex engine accepts)
NoConstraints == None
Constraints(req, mn, mx, pat) ==
    Some([required |-> req, minimum |-> mn, maximum |-> mx, pattern |-> pat])
Field(n, t, ty, c) == [name |-> n, title |-> t, type |-> ty, constraints |-> c]

\* name_indicates_required
name_indicates_required(field) == EndsWithStar(TrimEnd(field.name.v))

\* title_indicates_required
title_indicates_required(field) ==
    IF field.title.some THEN EndsWithStar(TrimEnd(field.title.v)) ELSE FALSE

\* the match on field_type (absent type: unwrap_or("string"))
json_schema_type(field) ==
    LET field_type == IF field.type.some THEN field.type.v ELSE "string" IN
    CASE field_type = "integer" -> "integer"
      [] field_type \in {"number", "float"} -> "number"
      [] field_type = "boolean" -> "boolean"
      [] field_type = "array" -> "array"
      [] field_type = "object" -> "object"
      [] field_type = "datetime" -> "string"
      [] OTHER -> "string"

\* required.as_bool().unwrap_or(false)
AsBoolOrFalse(r) == r = "true"

will_be_requiredOverride(field) ==
    LET asterisk == name_indicates_required(field) \/ title_indicates_required(field) IN
    IF field.constraints.some /\ field.constraints.v.required # "absent"
    THEN AsBoolOrFalse(field.constraints.v.required)
    ELSE asterisk

\* will_be_required
will_be_required(field) ==
    LET asterisk == name_indicates_required(field) \/ title_indicates_required(field) IN
    IF field.constraints.some /\ field.constraints.v.required # "absent"
    THEN asterisk \/ AsBoolOrFalse(field.constraints.v.required)
    ELSE asterisk

property_typeAlwaysUnion(field) ==
    IF ~will_be_required(field)
    THEN <<json_schema_type(field), "null">>
    ELSE <<json_schema_type(field)>>

\* the "type" entry of the property: a bare type is a one-element sequence,
\* a union the sequence of its members
property_type(field) ==
    IF ~will_be_required(field) /\ json_schema_type(field) \notin {"array", "object"}
    THEN <<json_schema_type(field), "null">>
    ELSE <<json_schema_type(field)>>

\* the property inserted for a field
Property(field) ==
    LET c == field.constraints IN
    [type |-> property_type(field),
     title |-> field.title,
     minimum |-> IF c.some THEN c.v.minimum ELSE NoneNum,
     maximum |-> IF c.some THEN c.v.maximum ELSE NoneNum,
     pattern |-> IF c.some THEN c.v.pattern ELSE "absent"]

\* the key under which the property and the required entry are stored
property_key(field) == field.name.v

\* serde_json::Map::insert
MapInsert(m, k, v) == [x \in DOMAIN m \cup {k} |-> IF x = k THEN v ELSE m[x]]

EmptyMap == [x \in {} |-> None]

\* nothing uploaded and no distribution added yet
NoRemote == [uploaded |-> FALSE, distribution |-> FALSE]

\* no file written yet
NoCsv == [written |-> FALSE, headers |-> <<>>, records |-> <<>>]

\* the loop over the fields: Err at the first field without a name, else the
\* properties map and the required list
RECURSIVE ConvertLoop(_, _, _)
ConvertLoop(fields, props, req) ==
    IF fields = <<>>
    THEN [err |-> "none", properties |-> props, required |-> req]
    ELSE LET field == Head(fields) IN
         IF ~field.name.some
         THEN [err |-> "Field name not found", properties |-> props, required |-> req]
         ELSE ConvertLoop(Tail(fields),
                          MapInsert(props, property_key(field), Property(field)),
                          IF will_be_required(field)
                          THEN Append(req, property_key(field))
                          ELSE req)

\* convert_data_dictionary_to_json_schema
convert_data_dictionary_to_json_schema(d) ==
    IF ~d.has_fields
    THEN [err |-> "Fields array not found in schema", properties |-> EmptyMap,
          required |-> <<>>]
    ELSE ConvertLoop(d.fields, EmptyMap, <<>>)

\* DataDictionary::to_json_schema, as called by main
Convert ==
    /\ pc = "to_json_schema"
    /\ LET r == convert_data_dictionary_to_json_schema(dict) IN
       IF r.err # "none"
       THEN /\ pc' = "failed"
            /\ error' = r.err
            /\ UNCHANGED <<properties, required_fields>>
       ELSE /\ pc' = "schema"
            /\ properties' = r.properties
            /\ required_fields' = r.required
            /\ UNCHANGED error
    /\ UNCHANGED <<calls, remote, csv, variant, dict, dupResult, field_schemas, workbook, sheet,
                   row_index, headers, rows, vidx, row_value, validation_reports>>

(***************************************************************************)
(* DataDictionary::check_duplicates                                        *)
(***************************************************************************)
\* positions.entry(normalized).or_default().push(index), for the labels that are
\* present and not empty; index counts every field, from 1
RECURSIVE GroupPositions(_, _, _)
GroupPositions(labels, i, positions) ==
    IF i > Len(labels) THEN positions
    ELSE LET l == labels[i]
             n == normalize_string(l.v)
         IN IF ~l.some \/ n = <<>>
            THEN GroupPositions(labels, i + 1, positions)
            ELSE GroupPositions(labels, i + 1,
                     MapInsert(positions, n,
                         IF n \in DOMAIN positions THEN Append(positions[n], i) ELSE <<i>>))

\* the groups with more than one position
Duplicates(positions) ==
    [l \in {x \in DOMAIN positions : Len(positions[x]) > 1} |-> positions[l]]

NoDupResult == [done |-> FALSE, err |-> "none", names |-> EmptyMap, titles |-> EmptyMap]

\* check_duplicates: names and titles are grouped separately; the error names every
\* duplicated label with all of its positions
check_duplicates(d) ==
    IF ~d.has_fields
    THEN [done |-> TRUE, err |-> "Data dictionary must contain a valid 'fields' array",
          names |-> EmptyMap, titles |-> EmptyMap]
    ELSE LET names == Duplicates(GroupPositions(
                          [i \in 1..Len(d.fields) |-> d.fields[i].name], 1, EmptyMap))
             titles == Duplicates(GroupPositions(
                          [i \in 1..Len(d.fields) |-> d.fields[i].title], 1, EmptyMap))
         IN [done |-> TRUE,
             err |-> IF DOMAIN names = {} /\ DOMAIN titles = {} THEN "none"
                     ELSE "Data dictionary contains duplicate fields",
             names |-> names, titles |-> titles]

CheckDuplicates ==
    /\ pc = "check_duplicates"
    /\ dupResult' = check_duplicates(dict)
    /\ pc' = IF dupResult'.err = "none" THEN "checked" ELSE "failed"
    /\ error' = dupResult'.err
    /\ UNCHANGED <<calls, remote, csv, variant, dict, properties, required_fields, field_schemas, workbook,
                   sheet, row_index, headers, rows, vidx, row_value, validation_reports>>

(***************************************************************************)
(* The converter on its own: every dictionary of at most MaxFields fields  *)
(***************************************************************************)
\* all sequences over S of length at most n
SeqsUpTo(S, n) == UNION {[1..k -> S] : k \in 0..n}

\* names and titles with and without the trailing required marker
NameInputs == {<<"a">>, <<"a", "*", " ">>}
TitleInputs == {None, Some(<<"T">>), Some(<<"T", " ", "*">>), Some(<<>>)}
ConstraintInputs ==
    {NoConstraints} \cup
    {Constraints(r, NoneNum, NoneNum, "absent") : r \in {"true", "false", "other"}}
TypeInputs ==
    {None} \cup {Some(t) : t \in {"string", "integer", "number", "float", "boolean",
                                  "array", "object", "datetime", "geopoint"}}

\* the truth table of (name asterisk, title asterisk, explicit constraint) on one
\* type, every type with and without a requirement, and a field without a name
FieldInputs ==
    {Field(Some(n), t, Some("integer"), c) :
        n \in NameInputs, t \in TitleInputs, c \in ConstraintInputs}
    \cup {Field(Some(<<"b">>), None, ty, c) :
        ty \in TypeInputs, c \in {Constraints("absent", NoneNum, NoneNum, "absent"),
                                   Constraints("true", NoneNum, NoneNum, "absent")}}
    \cup {Field(Some(<<"a", "*", SOH>>), None, Some("string"), NoConstraints),
          Field(Some(<<"c">>), Some(<<"T", "*", TAB>>), Some("string"), NoConstraints),
          Field(None, Some(<<"T">>), Some("string"), NoConstraints)}

DictInputs ==
    {[has_fields |-> TRUE, fields |-> fs] : fs \in SeqsUpTo(FieldInputs, MaxFields)}
    \cup {[has_fields |-> FALSE, fields |-> <<>>]}

\* the part of the state the converter does not touch
NoValidator ==
    /\ variant = "lib"
    /\ dupResult = NoDupResult
    /\ field_schemas = EmptyMap
    /\ workbook = "ok"
    /\ sheet = <<>>
    /\ row_index = 0
    /\ headers = <<>>
    /\ rows = <<>>
    /\ vidx = 0
    /\ row_value = EmptyMap
    /\ validation_reports = <<>>
    /\ csv = NoCsv
    /\ calls = 0
    /\ remote = NoRemote

InitDict ==
    /\ dict \in DictInputs
    /\ pc = "to_json_schema"
    /\ error = "none"
    /\ properties = EmptyMap
    /\ required_fields = <<>>
    /\ NoValidator

NextDict == Convert

SpecDict == InitDict /\ [][NextDict]_vars

(***************************************************************************)
(* Properties of the converter                                             *)
(***************************************************************************)
\* the text ends with '*' once trailing whitespace is disregarded
EndsWithAsterisk(s) ==
    \E k \in 1..Len(s) : s[k] = "*" /\ \A j \in (k + 1)..Len(s) : IsWhitespace(s[j])

\* the requirement decision: name asterisk OR title asterisk OR constraints.required = true
RequiredDecision(field) ==
    \/ EndsWithAsterisk(field.name.v)
    \/ (field.title.some /\ EndsWithAsterisk(field.title.v))
    \/ (field.constraints.some /\ field.constraints.v.required = "true")

\* the keys of the fields for which the decision is true, in field order
RECURSIVE RequiredKeys(_)
RequiredKeys(fields) ==
    IF fields = <<>> THEN <<>>
    ELSE (IF RequiredDecision(Head(fields)) THEN <<property_key(Head(fields))>> ELSE <<>>)
         \o RequiredKeys(Tail(fields))

\* C7: the required list holds exactly the fields whose name ends with '*', or whose
\* title ends with '*', or whose constraints.required is true; an explicit
\* constraints.required = false does not cancel an asterisk.
C7_RequiredIffOr ==
    pc = "schema" => required_fields = RequiredKeys(dict.fields)

\* a schema was built from a field that has an asterisk and constraints.required = false
C7_Witness ==
    /\ pc = "schema"
    /\ \E i \in 1..Len(dict.fields) :
        LET f == dict.fields[i] IN
        /\ EndsWithAsterisk(f.name.v)
        /\ f.constraints.some /\ f.constraints.v.required = "false"
        /\ \E k \in 1..Len(required_fields) : required_fields[k] = property_key(f)

\* the field whose property is stored under the key of field i: the last one with that key
OwnsKey(fields, i) ==
    \A j \in (i + 1)..Len(fields) : property_key(fields[j]) # property_key(fields[i])

\* C8: a property of a field that is not required and whose scalar type is neither array
\* nor object has the type [scalar, "null"]; every other property has the bare scalar type.
C8_NullUnion ==
    pc = "schema" =>
        \A i \in 1..Len(dict.fields) :
            LET f == dict.fields[i]
                scalar == json_schema_type(f)
            IN OwnsKey(dict.fields, i) =>
                properties[property_key(f)].type =
                    IF ~RequiredDecision(f) /\ scalar \notin {"array", "object"}
                    THEN <<scalar, "null">>
                    ELSE <<scalar>>

\* a schema holds an optional array property (bare) next to an optional scalar one (union)
C8_Witness ==
    /\ pc = "schema"
    /\ \E k \in DOMAIN properties : properties[k].type = <<"array">>
                                    /\ k \notin {required_fields[i] : i \in 1..Len(required_fields)}
    /\ \E k \in DOMAIN properties : Len(properties[k].type) = 2

\* the key the claim names: the normalized title if present and non-empty, else the
\* normalized name
PropertyKey(field) ==
    IF field.title.some /\ normalize_string(field.title.v) # <<>>
    THEN normalize_string(field.title.v)
    ELSE normalize_string(field.name.v)

\* C9: the property key of a field is its normalized title if the title is present and
\* non-empty, and otherwise its normalized name; the same key is added to the required list.
C9_KeyIsTitle ==
    pc = "schema" =>
        \A i \in 1..Len(dict.fields) :
            LET f == dict.fields[i] IN
            /\ PropertyKey(f) \in DOMAIN properties
            /\ RequiredDecision(f) =>
                   \E k \in 1..Len(required_fields) : required_fields[k] = PropertyKey(f)

(***************************************************************************)
(* The duplicate check on its own                                          *)
(***************************************************************************)
DupNameInputs == {None, Some(<<>>), Some(<<"a", " ", "b">>), Some(<<"a", SOH, "b">>)}
DupTitleInputs == {None, Some(<<"a", " ", "b">>), Some(<<TAB, "a", " ", " ", "b">>)}
DupFieldInputs ==
    {Field(n, t, Some("string"), NoConstraints) : n \in DupNameInputs, t \in DupTitleInputs}

DupDictInputs ==
    {[has_fields |-> TRUE, fields |-> fs] : fs \in SeqsUpTo(DupFieldInputs, MaxDupFields)}
    \cup {[has_fields |-> FALSE, fields |-> <<>>]}

InitDup ==
    /\ dict \in DupDictInputs
    /\ pc = "check_duplicates"
    /\ error = "none"
    /\ properties = EmptyMap
    /\ required_fields = <<>>
    /\ NoValidator

NextDup == CheckDuplicates

SpecDup == InitDup /\ [][NextDup]_vars

\* two labels coincide after normalization: both present, not empty, and made of the
\* same words (control characters and whitespace separate words)
Words(x) == SplitWhitespace(ReplaceControl(x), <<>>)
Coincide(x, y) == x.some /\ y.some /\ Words(x.v) # <<>> /\ Words(x.v) = Words(y.v)

\* the positions of the labels coinciding with the label at position i
CoincidingAt(labels, i) == {j \in 1..Len(labels) : Coincide(labels[i], labels[j])}

\* the sets of positions of the labels that occur more than once
CoincidingGroups(labels) ==
    {CoincidingAt(labels, i) : i \in {k \in 1..Len(labels) : Cardinality(CoincidingAt(labels, k)) > 1}}

\* the sets of positions an error reports
ReportedGroups(report) ==
    {{report[l][k] : k \in 1..Len(report[l])} : l \in DOMAIN report}

RECURSIVE Reverse(_)
Reverse(s) == IF s = <<>> THEN <<>> ELSE Append(Reverse(Tail(s)), Head(s))

\* the loop over the reversed text: asterisks are kept, spaces dropped, and the first
\* other character ends the loop; the rest follows unchanged
RECURSIVE SkipSpacesAfterAsterisks(_, _)
SkipSpacesAfterAsterisks(chars, result) ==
    IF chars = <<>> THEN result
    ELSE IF Head(chars) = "*" THEN SkipSpacesAfterAsterisks(Tail(chars), Append(result, "*"))
    ELSE IF Head(chars) = " " THEN SkipSpacesAfterAsterisks(Tail(chars), result)
    ELSE result \o chars

lib_normalize_stringNoStrip(value) == normalize_string(value)

\* normalize_string of importer-lib: as the one above, and spaces before the trailing
\* asterisks are removed
lib_normalize_string(value) ==
    LET normalized == Trim(JoinSpace(SplitWhitespace(ReplaceControl(value), <<>>)))
        reversed == Reverse(normalized)
    IN IF reversed # <<>> /\ Head(reversed) = "*"
       THEN Reverse(SkipSpacesAfterAsterisks(reversed, <<>>))
       ELSE normalized

(***************************************************************************)
(* JSON values and spreadsheet cells                                       *)
(***************************************************************************)
\* serde_json::Value: k the variant, n the number or the boolean (1/0), s the text
VNull == [k |-> "null", n |-> 0, s |-> <<>>]
VBool(b) == [k |-> "bool", n |-> IF b THEN 1 ELSE 0, s |-> <<>>]
VInt(i) == [k |-> "int", n |-> i, s |-> <<>>]
VStr(t) == [k |-> "string", n |-> 0, s |-> t]
\* a number with a fractional part: n its value in tenths
VFloat(tenths) == [k |-> "float", n |-> tenths, s |-> <<>>]

\* calamine::Data: d the variant
CEmpty == [d |-> "Empty", n |-> 0, s |-> <<>>]
CString(t) == [d |-> "String", n |-> 0, s |-> t]
CInt(i) == [d |-> "Int", n |-> i, s |-> <<>>]
CBool(b) == [d |-> "Bool", n |-> IF b THEN 1 ELSE 0, s |-> <<>>]
CError == [d |-> "Error", n |-> 0, s |-> <<>>]
CDurationIso(t) == [d |-> "DurationIso", n |-> 0, s |-> t]

Digits == {"0", "1", "2", "3", "4", "5", "6", "7", "8", "9"}

DigitValue(c) ==
    CASE c = "0" -> 0 [] c = "1" -> 1 [] c = "2" -> 2 [] c = "3" -> 3 [] c = "4" -> 4
      [] c = "5" -> 5 [] c = "6" -> 6 [] c = "7" -> 7 [] c = "8" -> 8 [] c = "9" -> 9

DigitChar(d) ==
    CASE d = 0 -> "0" [] d = 1 -> "1" [] d = 2 -> "2" [] d = 3 -> "3" [] d = 4 -> "4"
      [] d = 5 -> "5" [] d = 6 -> "6" [] d = 7 -> "7" [] d = 8 -> "8" [] d = 9 -> "9"

RECURSIVE DigitsValue(_, _)
DigitsValue(ds, acc) ==
    IF ds = <<>> THEN acc ELSE DigitsValue(Tail(ds), acc * 10 + DigitValue(Head(ds)))

\* the longest digit text the model reads
MaxDigits == 4

\* the width of the model's i64, scaled down from 64 bits so that the texts of the model
\* reach beyond it: i64::MIN, i64::MAX, and i64::MAX as f64, which is not MAX itself but
\* the power of two above it, the nearest f64
IntBits == 8
I64_MAX == 2 ^ (IntBits - 1) - 1
I64_MIN == 0 - 2 ^ (IntBits - 1)
I64_MAX_AS_F64 == 2 ^ (IntBits - 1)

\* the digits as a number
SignedValue(t) ==
    IF t # <<>> /\ Head(t) = "-" THEN 0 - DigitsValue(Tail(t), 0)
    ELSE IF t # <<>> /\ Head(t) = "+" THEN DigitsValue(Tail(t), 0)
    ELSE DigitsValue(t, 0)

\* str::parse::<i64>: an optional sign and at least one digit, nothing else; Err for a
\* number outside the range of i64
ParseI64(t) ==
    LET signed == t # <<>> /\ Head(t) \in {"+", "-"}
        ds == IF signed THEN Tail(t) ELSE t
    IN CASE ds = <<>> \/ \E i \in 1..Len(ds) : ds[i] \notin Digits -> NoneNum
         [] ds # <<>> /\ (\A i \in 1..Len(ds) : ds[i] \in Digits) /\ Len(ds) <= MaxDigits ->
              IF SignedValue(t) >= I64_MIN /\ SignedValue(t) <= I64_MAX
              THEN Some(SignedValue(t))
              ELSE NoneNum

\* i64::to_string
RECURSIVE NatToString(_)
NatToString(i) ==
    IF i < 10 THEN <<DigitChar(i)>> ELSE Append(NatToString(i \div 10), DigitChar(i % 10))
IntToString(i) == IF i < 0 THEN <<"-">> \o NatToString(0 - i) ELSE NatToString(i)

\* f64::to_string of a value given in tenths
FloatToString(tenths) ==
    LET abs == IF tenths < 0 THEN 0 - tenths ELSE tenths IN
    (IF tenths < 0 THEN <<"-">> ELSE <<>>)
    \o NatToString(abs \div 10) \o <<".", DigitChar(abs % 10)>>

\* str::to_lowercase, on the letters the model uses
ToLowercase(t) == [i \in 1..Len(t) |->
    CASE t[i] = "Y" -> "y" [] t[i] = "N" -> "n" [] t[i] = "X" -> "x" [] t[i] = "I" -> "i"
      [] t[i] = "A" -> "a" [] t[i] = "R" -> "r" [] t[i] = "M" -> "m" [] t[i] = "P" -> "p"
      [] OTHER -> t[i]]

\* an f64 of the model: finite with its value in tenths, or NaN, or infinite
NoneFloat == [some |-> FALSE, v |-> [cls |-> "none", tenths |-> 0]]
SomeFloat(cls, tenths) == [some |-> TRUE, v |-> [cls |-> cls, tenths |-> tenths]]

\* str::parse::<f64>, on texts without exponent: an optional sign, then "nan", "inf" or
\* "infinity" in any case, or digits with at most one '.', one digit at least; the model
\* reads at most MaxDigits digits before the '.' and at most one after it
ParseF64(t) ==
    LET signed == t # <<>> /\ Head(t) \in {"+", "-"}
        body == IF signed THEN Tail(t) ELSE t
        sign == IF signed /\ Head(t) = "-" THEN 0 - 1 ELSE 1
        dots == {i \in 1..Len(body) : body[i] = "."}
        ip == IF dots = {} THEN body ELSE SubSeq(body, 1, (CHOOSE i \in dots : TRUE) - 1)
        fp == IF dots = {} THEN <<>>
              ELSE SubSeq(body, (CHOOSE i \in dots : TRUE) + 1, Len(body))
        digits == \A i \in 1..Len(body) : body[i] \in Digits \cup {"."}
    IN CASE ToLowercase(body) = <<"n", "a", "n">> -> SomeFloat("nan", 0)
         [] ToLowercase(body) \in {<<"i", "n", "f">>,
                                   <<"i", "n", "f", "i", "n", "i", "t", "y">>} ->
              SomeFloat("inf", 0)
         [] ToLowercase(body) \notin {<<"n", "a", "n">>, <<"i", "n", "f">>,
                                      <<"i", "n", "f", "i", "n", "i", "t", "y">>}
            /\ (~digits \/ Cardinality(dots) > 1 \/ Len(ip) + Len(fp) = 0) -> NoneFloat
         [] digits /\ Cardinality(dots) <= 1 /\ Len(ip) + Len(fp) > 0
            /\ Len(ip) <= MaxDigits /\ Len(fp) <= 1 ->
              SomeFloat("finite",
                  sign * (10 * DigitsValue(ip, 0) + DigitsValue(fp, 0)))

\* float_val as i64, for a finite float without fractional part: the cast saturates
FloatAsI64(tenths) ==
    IF tenths \div 10 > I64_MAX THEN I64_MAX
    ELSE IF tenths \div 10 < I64_MIN THEN I64_MIN
    ELSE tenths \div 10

\* f64::fract().abs() < f64::EPSILON: false for NaN and for the infinities
FractIsZero(f) == f.cls = "finite" /\ f.tenths % 10 = 0

\* the json! of an f64: Value::from(f64) is Null for a value that is not finite
JsonOfF64(f) == IF f.cls = "finite" THEN VFloat(f.tenths) ELSE VNull

(***************************************************************************)
(* ExcelValidator: field schemas                                           *)
(***************************************************************************)
\* SchemaType: kind the variant, types the members of Mixed
Scalar(kind) == [kind |-> kind, types |-> <<>>]
Mixed(types) == [kind |-> "Mixed", types |-> types]

\* parse_single_type, to the name of the variant
parse_single_type(type_val) ==
    CASE type_val = "string" -> "String"
      [] type_val = "integer" -> "Integer"
      [] type_val = "number" -> "Number"
      [] type_val = "boolean" -> "Boolean"
      [] type_val = "array" -> "Array"
      [] type_val = "object" -> "Object"
      [] type_val = "null" -> "Null"
      [] OTHER -> "String"

\* parse_schema_type: the converter writes a union as an array of two types and a bare
\* type as a string
parse_schema_type(property) ==
    IF Len(property.type) > 1
    THEN Mixed([i \in 1..Len(property.type) |-> parse_single_type(property.type[i])])
    ELSE Scalar(parse_single_type(property.type[1]))

\* parse_field_schema
parse_field_schema(property) ==
    [field_type |-> parse_schema_type(property),
     minimum |-> property.minimum,
     maximum |-> property.maximum,
     pattern |-> property.pattern]

\* extract_field_schemas
extract_field_schemas(props) == [key \in DOMAIN props |-> parse_field_schema(props[key])]

\* types.contains(&t)
Contains(types, t) == \E i \in 1..Len(types) : types[i] = t

(***************************************************************************)
(* ExcelValidator: coercion of a cell                                      *)
(***************************************************************************)
WithinBoundsUnchecked(n, fs) == TRUE

\* the bounds test of the Integer and Number arms: applied only when both are set
WithinBounds(n, fs) ==
    IF fs.minimum.some /\ fs.maximum.some
    THEN n >= fs.minimum.v /\ n <= fs.maximum.v
    ELSE TRUE

BooleanTrue == {<<"t", "r", "u", "e">>, <<"y", "e", "s">>, <<"y">>, <<"1">>, <<"o", "n">>,
                <<"e", "n", "a", "b", "l", "e", "d">>, <<"a", "c", "t", "i", "v", "e">>}
BooleanFalse == {<<"f", "a", "l", "s", "e">>, <<"n", "o">>, <<"n">>, <<"0">>, <<"o", "f", "f">>,
                 <<"d", "i", "s", "a", "b", "l", "e", "d">>,
                 <<"i", "n", "a", "c", "t", "i", "v", "e">>}
NullLiterals == {<<"n", "u", "l", "l">>, <<"n", "i", "l">>, <<"n", "o", "n", "e">>}

\* the same test on a value in tenths
WithinBoundsTenths(tenths, fs) ==
    IF fs.minimum.some /\ fs.maximum.some
    THEN tenths >= 10 * fs.minimum.v /\ tenths <= 10 * fs.maximum.v
    ELSE TRUE

\* smart_number_conversion: an integer if the text is one, or is a float without
\* fractional part; else the json! of the float
smart_number_conversion(t) ==
    LET int_val == ParseI64(t)
        float_val == ParseF64(t)
    IN IF int_val.some THEN Some(VInt(int_val.v))
       ELSE IF float_val.some
            THEN IF /\ FractIsZero(float_val.v)
                    /\ float_val.v.tenths >= 10 * I64_MIN
                    /\ float_val.v.tenths <= 10 * I64_MAX_AS_F64
                 THEN Some(VInt(FloatAsI64(float_val.v.tenths)))
                 ELSE Some(JsonOfF64(float_val.v))
       ELSE [some |-> FALSE, v |-> VNull]

\* the Number arm: with both bounds set the value must have an as_f64 within them; with
\* a bound missing the converted value is returned as it is
coerce_number(t, fs) ==
    LET num_val == smart_number_conversion(t) IN
    IF ~num_val.some THEN VStr(t)
    ELSE IF fs.minimum.some /\ fs.maximum.some
         THEN IF num_val.v.k = "int" /\ WithinBounds(num_val.v.n, fs) THEN num_val.v
              ELSE IF num_val.v.k = "float" /\ WithinBoundsTenths(num_val.v.n, fs)
                   THEN num_val.v
              ELSE VStr(t)
    ELSE num_val.v

\* the Integer arm: the integer parse, then the float parse of a text without
\* fractional part, each subject to the bounds
coerce_integer(t, fs) ==
    LET int_val == ParseI64(t)
        float_val == ParseF64(t)
    IN IF int_val.some /\ WithinBounds(int_val.v, fs) THEN VInt(int_val.v)
       ELSE IF float_val.some /\ FractIsZero(float_val.v)
               /\ WithinBoundsTenths(float_val.v.tenths, fs)
            THEN VInt(FloatAsI64(float_val.v.tenths))
       ELSE VStr(t)

\* coerce_string_to_schema_type for a type that is not Mixed
coerce_scalar(t, kind, fs) ==
    CASE kind = "Integer" -> coerce_integer(t, fs)
      [] kind = "Number" -> coerce_number(t, fs)
      [] kind = "Boolean" ->
            IF ToLowercase(t) \in BooleanTrue THEN VBool(TRUE)
            ELSE IF ToLowercase(t) \in BooleanFalse THEN VBool(FALSE)
            ELSE VStr(t)
      [] kind = "String" -> VStr(t)
      [] kind = "Null" ->
            IF ToLowercase(t) \in NullLiterals \cup {<<>>} THEN VNull ELSE VStr(t)

PreferredOrderStringFirst == <<"String", "Integer", "Number", "Boolean">>

\* preferred_order
PreferredOrder == <<"Integer", "Number", "Boolean", "String">>

\* the first loop of the Mixed arm: the preferred types present in the union, in order
RECURSIVE TryPreferred(_, _, _, _)
TryPreferred(t, types, fs, i) ==
    IF i > Len(PreferredOrder) THEN None
    ELSE LET preferred == PreferredOrder[i]
             converted == coerce_scalar(t, preferred, fs)
         IN IF Contains(types, preferred)
               /\ (IF preferred = "String" THEN converted.k = "string"
                                           ELSE converted.k # "string")
            THEN Some(converted)
            ELSE TryPreferred(t, types, fs, i + 1)

\* the second loop of the Mixed arm: the other members of the union, in their order
RECURSIVE TryRemaining(_, _, _, _)
TryRemaining(t, types, fs, i) ==
    IF i > Len(types) THEN VStr(t)
    ELSE LET converted == coerce_scalar(t, types[i], fs) IN
         IF ~Contains(PreferredOrder, types[i]) /\ converted # VStr(t)
         THEN converted
         ELSE TryRemaining(t, types, fs, i + 1)

\* coerce_string_to_schema_type
coerce_string_to_schema_type(t, fs) ==
    IF fs.field_type.kind = "Mixed"
    THEN LET first == TryPreferred(t, fs.field_type.types, fs, 1) IN
         IF first.some THEN first.v ELSE TryRemaining(t, fs.field_type.types, fs, 1)
    ELSE coerce_scalar(t, fs.field_type.kind, fs)

\* intelligent_string_conversion: the conversion of a text without a field schema
intelligent_string_conversion(t) ==
    IF ParseI64(t).some THEN VInt(ParseI64(t).v)
    ELSE IF ParseF64(t).some THEN JsonOfF64(ParseF64(t).v)
    ELSE IF ToLowercase(t) \in {<<"t", "r", "u", "e">>, <<"y", "e", "s">>, <<"y">>, <<"1">>}
         THEN VBool(TRUE)
    ELSE IF ToLowercase(t) \in {<<"f", "a", "l", "s", "e">>, <<"n", "o">>, <<"n">>, <<"0">>}
         THEN VBool(FALSE)
    ELSE IF ToLowercase(t) \in NullLiterals THEN VNull
    ELSE VStr(t)

\* the field type admits null: the Null type or a union with Null
AllowsNull(fs) ==
    \/ fs.field_type.kind = "Null"
    \/ (fs.field_type.kind = "Mixed" /\ Contains(fs.field_type.types, "Null"))

convert_string_with_schema_intelligenceTrimmed(schemas, t, field_name) ==
    IF Trim(t) = <<>>
    THEN IF field_name \in DOMAIN schemas /\ AllowsNull(schemas[field_name])
         THEN VNull
         ELSE VStr(Trim(t))
    ELSE IF field_name \in DOMAIN schemas
         THEN coerce_string_to_schema_type(t, schemas[field_name])
         ELSE intelligent_string_conversion(t)

\* convert_string_with_schema_intelligence
convert_string_with_schema_intelligence(schemas, t, field_name) ==
    IF Trim(t) = <<>>
    THEN IF field_name \in DOMAIN schemas /\ AllowsNull(schemas[field_name])
         THEN VNull
         ELSE VStr(t)
    ELSE IF field_name \in DOMAIN schemas
         THEN coerce_string_to_schema_type(t, schemas[field_name])
         ELSE intelligent_string_conversion(t)

convert_cell_to_json_with_schema_awarenessEmptyText(schemas, cell, field_name) ==
    CASE cell.d = "Empty" ->
             IF field_name \in DOMAIN schemas /\ ~AllowsNull(schemas[field_name])
             THEN VStr(<<>>)
             ELSE VNull
      [] cell.d = "String" -> convert_string_with_schema_intelligence(schemas, cell.s, field_name)
      [] cell.d = "Int" -> VInt(cell.n)
      [] cell.d = "Bool" -> VBool(cell.n = 1)
      [] cell.d = "Error" -> VNull
      [] cell.d = "DurationIso" -> VStr(cell.s)

\* convert_cell_to_json_with_schema_awareness, for the cells of the model; the arm of
\* Data::Empty returns Null early for a field that admits null and falls through to
\* Null for every other field
convert_cell_to_json_with_schema_awareness(schemas, cell, field_name) ==
    CASE cell.d = "Empty" ->
             IF field_name \in DOMAIN schemas /\ AllowsNull(schemas[field_name])
             THEN VNull
             ELSE VNull
      [] cell.d = "String" -> convert_string_with_schema_intelligence(schemas, cell.s, field_name)
      [] cell.d = "Int" -> VInt(cell.n)
      [] cell.d = "Bool" -> VBool(cell.n = 1)
      [] cell.d = "Error" -> VNull
      [] cell.d = "DurationIso" -> VStr(cell.s)

(***************************************************************************)
(* The validator compiled from the schema (jsonschema crate)               *)
(***************************************************************************)
\* a JSON value is of a JSON Schema type
TypeMatches(v, type) ==
    CASE type = "integer" -> v.k = "int" \/ (v.k = "float" /\ v.n % 10 = 0)
      [] type = "number" -> v.k \in {"int", "float"}
      [] type = "string" -> v.k = "string"
      [] type = "boolean" -> v.k = "bool"
      [] type = "null" -> v.k = "null"
      [] type \in {"array", "object"} -> FALSE

\* a value satisfies a property: one of its types, and its bounds when it is a number
PropertyValid(v, property) ==
    /\ \E i \in 1..Len(property.type) : TypeMatches(v, property.type[i])
    /\ (v.k = "int" /\ property.minimum.some) => v.n >= property.minimum.v
    /\ (v.k = "int" /\ property.maximum.some) => v.n <= property.maximum.v
    /\ (v.k = "float" /\ property.minimum.some) => v.n >= 10 * property.minimum.v
    /\ (v.k = "float" /\ property.maximum.some) => v.n <= 10 * property.maximum.v

\* Validator::is_valid for the schema {properties, required, additionalProperties: false}
is_valid(props, required, row) ==
    /\ \A key \in DOMAIN row : key \in DOMAIN props /\ PropertyValid(row[key], props[key])
    /\ \A i \in 1..Len(required) : required[i] \in DOMAIN row

\* jsonschema::validator_for: a schema with a pattern that is no regex is rejected
validator_for(props) == \A key \in DOMAIN props : props[key].pattern # "bad"

\* Validator::iter_errors, each error already with its path row[N] or row[N].key: one
\* error at the row for keys the schema does not have, one for each value that does not
\* satisfy its property, one at the row for each missing required key
\* collect_validation_errors: is_required_field, read off the error's instance path
is_required_field(key) == EndsWithStar(key)

\* analyze_jsonschema_error_with_context for an error at a property (the older
\* analyze_jsonschema_error takes no hint): required_field tells whether the expected
\* text ends with "(required field)"
analyze_jsonschema_error_with_context(v, row_number, key, instance, required_hint) ==
    [row |-> row_number, field |-> key, kind |-> "type",
     required_field |-> v = "lib" /\ required_hint /\ instance = VNull,
     properties |-> <<>>]

\* str::contains
ContainsText(t, sub) ==
    \E i \in 1..(Len(t) - Len(sub) + 1) : SubSeq(t, i, i + Len(sub) - 1) = sub

\* the text of the validator's error for keys the schema does not declare, as
\* error.to_string() gives it: Additional properties are not allowed ('a', 'b' were
\* unexpected), with "was" for a single key
RECURSIVE QuotedList(_)
QuotedList(keys) ==
    IF keys = <<>> THEN <<>>
    ELSE <<"'">> \o Head(keys) \o <<"'">>
         \o (IF Tail(keys) = <<>> THEN <<>> ELSE <<",", " ">> \o QuotedList(Tail(keys)))

additional_properties_message(unexpected) ==
    <<"A", "d", "d", "i", "t", "i", "o", "n", "a", "l", " ", "p", "r", "o", "p", "e", "r", "t", "i", "e", "s", " ", "a", "r", "e", " ", "n", "o", "t", " ", "a", "l", "l", "o", "w", "e", "d", " ", "(">>
    \o QuotedList(unexpected)
    \o (IF Len(unexpected) = 1 THEN <<" ", "w", "a", "s">> ELSE <<" ", "w", "e", "r", "e">>)
    \o <<" ", "u", "n", "e", "x", "p", "e", "c", "t", "e", "d", ")">>

\* analyze_jsonschema_error_with_context and analyze_jsonschema_error: the ordered
\* tests on the lowercased message, the first that matches decides the kind
classify_lower_msg(lower_msg) ==
    IF ContainsText(lower_msg, <<"i", "s", " ", "n", "o", "t", " ", "o", "f", " ", "t", "y", "p", "e">>) THEN "type"
    ELSE IF \/ ContainsText(lower_msg, <<"i", "s", " ", "a", " ", "r", "e", "q", "u", "i", "r", "e", "d", " ", "p", "r", "o", "p", "e", "r", "t", "y">>)
            \/ ContainsText(lower_msg, <<"r", "e", "q", "u", "i", "r", "e", "d">>) THEN "required"
    ELSE IF \/ ContainsText(lower_msg, <<"i", "s", " ", "l", "e", "s", "s", " ", "t", "h", "a", "n">>)
            \/ ContainsText(lower_msg, <<"i", "s", " ", "g", "r", "e", "a", "t", "e", "r", " ", "t", "h", "a", "n">>)
            \/ ContainsText(lower_msg, <<"m", "i", "n", "i", "m", "u", "m">>)
            \/ ContainsText(lower_msg, <<"m", "a", "x", "i", "m", "u", "m">>) THEN "range"
    ELSE IF /\ ContainsText(lower_msg, <<"i", "s", " ", "n", "o", "t", " ", "a">>)
            /\ \/ ContainsText(lower_msg, <<"e", "m", "a", "i", "l">>)
               \/ ContainsText(lower_msg, <<"d", "a", "t", "e">>)
               \/ ContainsText(lower_msg, <<"t", "i", "m", "e">>)
               \/ ContainsText(lower_msg, <<"u", "r", "i">>) THEN "format"
    ELSE IF \/ ContainsText(lower_msg, <<"i", "s", " ", "s", "h", "o", "r", "t", "e", "r", " ", "t", "h", "a", "n">>)
            \/ ContainsText(lower_msg, <<"i", "s", " ", "l", "o", "n", "g", "e", "r", " ", "t", "h", "a", "n">>)
            \/ ContainsText(lower_msg, <<"m", "i", "n", "l", "e", "n", "g", "t", "h">>)
            \/ ContainsText(lower_msg, <<"m", "a", "x", "l", "e", "n", "g", "t", "h">>) THEN "format"
    ELSE IF \/ ContainsText(lower_msg, <<"d", "o", "e", "s", " ", "n", "o", "t", " ", "m", "a", "t", "c", "h">>)
            \/ ContainsText(lower_msg, <<"p", "a", "t", "t", "e", "r", "n">>) THEN "pattern"
    ELSE IF \/ ContainsText(lower_msg, <<"a", "d", "d", "i", "t", "i", "o", "n", "a", "l", " ", "p", "r", "o", "p", "e", "r", "t", "i", "e", "s">>)
            \/ ContainsText(lower_msg, <<"n", "o", "t", " ", "a", "l", "l", "o", "w", "e", "d">>) THEN "additionalProperties"
    ELSE "format"

\* extract_additional_properties: every non-empty text between two single quotes, or
\* the whole message when there is none
RECURSIVE quoted_texts(_, _, _, _)
quoted_texts(chars, in_quote, current_property, props) ==
    IF chars = <<>> THEN props
    ELSE IF Head(chars) = "'"
         THEN IF in_quote
              THEN quoted_texts(Tail(chars), FALSE, <<>>,
                       IF current_property # <<>> THEN Append(props, current_property)
                       ELSE props)
              ELSE quoted_texts(Tail(chars), TRUE, <<>>, props)
         ELSE quoted_texts(Tail(chars), in_quote,
                  IF in_quote THEN Append(current_property, Head(chars))
                  ELSE current_property, props)

extract_additional_properties(error_msg) ==
    LET props == quoted_texts(error_msg, FALSE, <<>>, <<>>) IN
    IF props = <<>> THEN <<error_msg>> ELSE props

\* the keys of the row that the schema does not declare, in the order of the columns
RECURSIVE unexpected_keys(_, _, _)
unexpected_keys(props, hdrs, row) ==
    IF hdrs = <<>> THEN <<>>
    ELSE (IF Head(hdrs) \in DOMAIN row /\ Head(hdrs) \notin DOMAIN props
             /\ ~Contains(Tail(hdrs), Head(hdrs))
          THEN <<Head(hdrs)>> ELSE <<>>) \o unexpected_keys(props, Tail(hdrs), row)

\* the error for the keys the schema does not declare, classified from its message
additional_properties_error(props, hdrs, row, row_number) ==
    LET error_msg == additional_properties_message(unexpected_keys(props, hdrs, row))
        kind == classify_lower_msg(ToLowercase(error_msg))
    IN [row |-> row_number, field |-> <<>>, kind |-> kind, required_field |-> FALSE,
        properties |-> IF kind = "additionalProperties"
                       THEN extract_additional_properties(error_msg) ELSE <<>>]

RECURSIVE KeyErrors(_, _, _, _, _)
KeyErrors(v, props, hdrs, row, row_number) ==
    IF hdrs = <<>> THEN <<>>
    ELSE LET key == Head(hdrs) IN
         (IF key \in DOMAIN row /\ key \in DOMAIN props /\ ~PropertyValid(row[key], props[key])
             /\ ~Contains(Tail(hdrs), key)
          THEN <<analyze_jsonschema_error_with_context(v, row_number, key, row[key],
                                                       is_required_field(key))>>
          ELSE <<>>) \o KeyErrors(v, props, Tail(hdrs), row, row_number)

RECURSIVE RequiredErrors(_, _, _)
RequiredErrors(required, row, row_number) ==
    IF required = <<>> THEN <<>>
    ELSE (IF Head(required) \notin DOMAIN row
          THEN <<[row |-> row_number, field |-> <<>>, kind |-> "required",
                  required_field |-> FALSE, properties |-> <<>>]>>
          ELSE <<>>) \o RequiredErrors(Tail(required), row, row_number)

\* collect_validation_errors
collect_validation_errors(v, props, required, hdrs, row, row_number) ==
    (IF \E key \in DOMAIN row : key \notin DOMAIN props
     THEN <<additional_properties_error(props, hdrs, row, row_number)>>
     ELSE <<>>)
    \o KeyErrors(v, props, hdrs, row, row_number)
    \o RequiredErrors(required, row, row_number)

(***************************************************************************)
(* ExcelValidator: reading the sheet                                       *)
(***************************************************************************)
\* Data::to_string of a header cell
CellToString(cell) ==
    CASE cell.d = "Int" -> IntToString(cell.n)
      [] cell.d = "Bool" -> IF cell.n = 1 THEN <<"t", "r", "u", "e">>
                            ELSE <<"f", "a", "l", "s", "e">>
      [] OTHER -> cell.s

\* the header cells as normalized by process_excel_rows
NormalizeHeaders(v, row) ==
    [i \in 1..Len(row) |->
        IF v = "lib" THEN lib_normalize_string(CellToString(row[i]))
        ELSE normalize_string(CellToString(row[i]))]

\* check_header_duplicates: header_positions, every normalized header with the columns
\* it occurs in (kept here as the 1-based numbers the message prints)
RECURSIVE header_positions(_, _, _)
header_positions(hdrs, index, positions) ==
    IF index > Len(hdrs) THEN positions
    ELSE LET normalized_header == lib_normalize_string(hdrs[index]) IN
         header_positions(hdrs, index + 1,
             MapInsert(positions, normalized_header,
                 IF normalized_header \in DOMAIN positions
                 THEN Append(positions[normalized_header], index)
                 ELSE <<index>>))

duplicate_headersExactText(hdrs) ==
    LET positions == header_positions(hdrs, 1, EmptyMap) IN
    [l \in {x \in DOMAIN positions :
                /\ Len(positions[x]) > 1
                /\ \A k \in 1..Len(positions[x]) :
                      hdrs[positions[x][k]] = hdrs[positions[x][1]]} |-> positions[l]]

\* check_header_duplicates: duplicate_headers, the headers with more than one column
duplicate_headers(hdrs) ==
    LET positions == header_positions(hdrs, 1, EmptyMap) IN
    [l \in {x \in DOMAIN positions : Len(positions[x]) > 1} |-> positions[l]]

\* check_header_duplicates: the result, with the message's first line and what it lists
check_header_duplicates_result(hdrs) ==
    LET duplicates == duplicate_headers(hdrs) IN
    [done |-> TRUE,
     err |-> IF DOMAIN duplicates = {} THEN "none"
             ELSE "Excel file contains duplicate column headers",
     names |-> duplicates, titles |-> EmptyMap]

check_header_duplicatesNone(hdrs) == TRUE

\* check_header_duplicates: Ok iff no normalized header has more than one column
check_header_duplicates(hdrs) == check_header_duplicates_result(hdrs).err = "none"

\* a call of check_header_duplicates on a list of headers
CheckHeaderDuplicates ==
    /\ pc = "check_header_duplicates"
    /\ dupResult' = check_header_duplicates_result(headers)
    /\ pc' = IF dupResult'.err = "none" THEN "checked" ELSE "failed"
    /\ error' = dupResult'.err
    /\ UNCHANGED <<calls, remote, csv, variant, dict, properties, required_fields, field_schemas, workbook,
                   sheet, row_index, headers, rows, vidx, row_value, validation_reports>>

\* is_empty_row
is_empty_row(row) ==
    \A i \in 1..Len(row) :
        \/ row[i].d = "Empty"
        \/ (row[i].d = "String" /\ Trim(row[i].s) = <<>>)
        \/ row[i].d = "Error"

\* the loop over the cells of a data row: json_obj.insert(header, value)
RECURSIVE RowObject(_, _, _, _, _)
RowObject(schemas, hdrs, row, col, json_obj) ==
    IF col > Len(row) THEN json_obj
    ELSE IF col <= Len(hdrs)
         THEN RowObject(schemas, hdrs, row, col + 1,
                  MapInsert(json_obj, hdrs[col],
                      convert_cell_to_json_with_schema_awareness(schemas, row[col], hdrs[col])))
         ELSE RowObject(schemas, hdrs, row, col + 1, json_obj)

RowNumberAmongParsed(idx, parsed) == Len(parsed) + 2

\* the row number pushed with a parsed row: row_index + 1
RowNumber(idx, parsed) == idx + 1

(***************************************************************************)
(* ExcelValidator: the corrective pass                                     *)
(***************************************************************************)
schema_expects_stringAlways(fs) == TRUE

\* schema_expects_string
schema_expects_string(fs) ==
    \/ fs.field_type.kind = "String"
    \/ (fs.field_type.kind = "Mixed" /\ Contains(fs.field_type.types, "String"))

apply_intelligent_type_coercionAnySchema(v, schemas, row) ==
    [field_name \in DOMAIN row |->
        LET field_value == row[field_name] IN
        IF field_name \notin DOMAIN schemas THEN field_value
        ELSE IF field_value.k = "string"
             THEN coerce_string_to_schema_type(field_value.s, schemas[field_name])
        ELSE IF v = "lib" /\ field_value.k = "int"
             THEN VStr(IntToString(field_value.n))
        ELSE field_value]

\* apply_intelligent_type_coercion: in both variants a text with a field schema is
\* coerced to the schema type; importer-lib also turns numbers and booleans into text
\* where the schema expects text
apply_intelligent_type_coercion(v, schemas, row) ==
    [field_name \in DOMAIN row |->
        LET field_value == row[field_name] IN
        IF field_name \notin DOMAIN schemas THEN field_value
        ELSE IF field_value.k = "string"
             THEN coerce_string_to_schema_type(field_value.s, schemas[field_name])
        ELSE IF v = "lib" /\ schema_expects_string(schemas[field_name])
             THEN CASE field_value.k = "int" -> VStr(IntToString(field_value.n))
                    [] field_value.k = "float" -> VStr(FloatToString(field_value.n))
                    [] field_value.k = "bool" ->
                         VStr(IF field_value.n = 1 THEN <<"t", "r", "u", "e">>
                                                   ELSE <<"f", "a", "l", "s", "e">>)
                    [] OTHER -> field_value
        ELSE field_value]

(***************************************************************************)
(* ExcelValidator: export_to_csv                                           *)
(***************************************************************************)
\* NUMERIC_PLACEHOLDER = "000000000000.000000"
NUMERIC_PLACEHOLDER ==
    <<"0", "0", "0", "0", "0", "0", "0", "0", "0", "0", "0", "0", ".",
      "0", "0", "0", "0", "0", "0">>

null_placeholderEmpty(v, schemas, header) == <<>>

\* the arm of Value::Null: importer-lib looks the field schema up by the header; the
\* src/model validator writes String::new()
null_placeholder(v, schemas, header) ==
    IF v = "lib" /\ header \in DOMAIN schemas
    THEN LET field_type == schemas[header].field_type IN
         CASE field_type.kind = "Number" -> NUMERIC_PLACEHOLDER
           [] field_type.kind = "Integer" -> <<"0">>
           [] field_type.kind = "Mixed" ->
                IF Contains(field_type.types, "Number") THEN NUMERIC_PLACEHOLDER
                ELSE IF Contains(field_type.types, "Integer") THEN <<"0">>
                ELSE <<>>
           [] OTHER -> <<>>
    ELSE <<>>

\* the text written for the value a row has under a header
csv_value(v, schemas, json_obj, header) ==
    IF header \in DOMAIN json_obj
    THEN LET parsed_value == json_obj[header] IN
         CASE parsed_value.k = "string" -> parsed_value.s
           [] parsed_value.k = "int" -> IntToString(parsed_value.n)
           [] parsed_value.k = "float" -> FloatToString(parsed_value.n)
           [] parsed_value.k = "bool" ->
                IF parsed_value.n = 1 THEN <<"t", "r", "u", "e">>
                ELSE <<"f", "a", "l", "s", "e">>
           [] parsed_value.k = "null" -> null_placeholder(v, schemas, header)
    ELSE <<>>

\* export_to_csv: the header record, with the names of title_to_name_mapping in
\* importer-lib, and one record for each parsed row
export_to_csv(v, hdrs, parsed, schemas, title_to_name_mapping) ==
    [written |-> TRUE,
     headers |-> [c \in 1..Len(hdrs) |->
                     IF v = "lib" /\ hdrs[c] \in DOMAIN title_to_name_mapping
                     THEN title_to_name_mapping[hdrs[c]] ELSE hdrs[c]],
     records |-> [k \in 1..Len(parsed) |->
                     [c \in 1..Len(hdrs) |-> csv_value(v, schemas, parsed[k].obj, hdrs[c])]]]

(***************************************************************************)
(* The run: schema, validator, sheet, validation                           *)
(***************************************************************************)
\* ExcelValidator::new / the head of ExcelValidatorBuilder::build
NewValidator ==
    /\ pc = "schema"
    /\ IF ~validator_for(properties)
       THEN /\ pc' = "failed"
            /\ error' = "Invalid JSON schema"
            /\ UNCHANGED field_schemas
       ELSE /\ pc' = "open_workbook"
            /\ field_schemas' = extract_field_schemas(properties)
            /\ UNCHANGED error
    /\ UNCHANGED <<calls, remote, csv, variant, dict, properties, required_fields, dupResult, workbook, sheet,
                   row_index, headers, rows, vidx, row_value, validation_reports>>

\* process_excel_rows: open_workbook and worksheet_range
OpenWorkbook ==
    /\ pc = "open_workbook"
    /\ IF workbook # "ok"
       THEN /\ pc' = "failed"
            /\ error' = workbook
       ELSE /\ pc' = "rows"
            /\ UNCHANGED error
    /\ UNCHANGED <<calls, remote, csv, variant, dict, properties, required_fields, dupResult, field_schemas,
                   workbook, sheet, row_index, headers, rows, vidx, row_value,
                   validation_reports>>

\* process_excel_rows: one turn of the loop over range.rows().enumerate()
ProcessRow ==
    /\ pc = "rows"
    /\ row_index < Len(sheet)
    /\ LET row == sheet[row_index + 1] IN
       IF row_index = 0
       THEN LET hdrs == NormalizeHeaders(variant, row) IN
            IF variant = "lib" /\ ~check_header_duplicates(hdrs)
            THEN /\ pc' = "failed"
                 /\ error' = "Excel file contains duplicate column headers"
                 /\ UNCHANGED <<headers, rows, row_index>>
            ELSE /\ headers' = hdrs
                 /\ row_index' = row_index + 1
                 /\ UNCHANGED <<pc, error, rows>>
       ELSE /\ rows' = IF is_empty_row(row) THEN rows
                       ELSE Append(rows,
                                [row_number |-> RowNumber(row_index, rows),
                                 obj |-> RowObject(field_schemas, headers, row, 1, EmptyMap)])
            /\ row_index' = row_index + 1
            /\ UNCHANGED <<pc, error, headers>>
    /\ UNCHANGED <<calls, remote, csv, variant, dict, properties, required_fields, dupResult, field_schemas,
                   workbook, sheet, vidx, row_value, validation_reports>>

\* validate_excel: the rows are read; an empty list of rows is an error
ValidateStart ==
    /\ pc = "rows"
    /\ row_index = Len(sheet)
    /\ IF rows = <<>>
       THEN /\ pc' = "failed"
            /\ error' = "The Excel file is empty"
            /\ UNCHANGED <<vidx, row_value>>
       ELSE /\ pc' = "is_valid_1"
            /\ vidx' = 1
            /\ row_value' = rows[1].obj
            /\ UNCHANGED error
    /\ UNCHANGED <<calls, remote, csv, variant, dict, properties, required_fields, dupResult, field_schemas,
                   workbook, sheet, row_index, headers, rows, validation_reports>>

PushReportFirst(reports, report) == <<report>> \o reports

\* validation_reports.push
PushReport(reports, report) == Append(reports, report)

\* the comma check of the src/model validator: a report for every text with a comma
RECURSIVE CommaReports(_, _, _, _)
CommaReports(hdrs, row, row_number, reports) ==
    IF hdrs = <<>> THEN reports
    ELSE LET key == Head(hdrs) IN
         CommaReports(Tail(hdrs), row, row_number,
             IF key \in DOMAIN row /\ row[key].k = "string"
                /\ (\E i \in 1..Len(row[key].s) : row[key].s[i] = ",")
                /\ ~Contains(Tail(hdrs), key)
             THEN PushReport(reports,
                      [row_number |-> row_number,
                       errors |-> <<[row |-> 0, field |-> key, kind |-> "comma",
                                     required_field |-> FALSE,
                                     properties |-> <<>>]>>,
                       row_data |-> row])
             ELSE reports)

\* validate_excel: the first is_valid of a row (src/model: after the comma check)
ValidateFirst ==
    /\ pc = "is_valid_1"
    /\ validation_reports' =
           IF variant = "model"
           THEN CommaReports(headers, row_value, rows[vidx].row_number, validation_reports)
           ELSE validation_reports
    /\ pc' = IF is_valid(properties, required_fields, row_value) THEN "is_valid_2"
             ELSE "coerce"
    /\ UNCHANGED <<calls, remote, csv, variant, dict, error, properties, required_fields, dupResult,
                   field_schemas, workbook, sheet, row_index, headers, rows, vidx, row_value>>

CoerceInPlace ==
    /\ pc = "coerce"
    /\ row_value' = apply_intelligent_type_coercion(variant, field_schemas, row_value)
    /\ rows' = [rows EXCEPT ![vidx].obj = row_value']
    /\ pc' = "is_valid_2"
    /\ UNCHANGED <<calls, remote, csv, variant, dict, error, properties, required_fields, dupResult,
                   field_schemas, workbook, sheet, row_index, headers, vidx,
                   validation_reports>>

\* validate_excel: the corrective pass, on the clone of the parsed row
Coerce ==
    /\ pc = "coerce"
    /\ row_value' = apply_intelligent_type_coercion(variant, field_schemas, row_value)
    /\ pc' = "is_valid_2"
    /\ UNCHANGED <<calls, remote, csv, variant, dict, error, properties, required_fields, dupResult,
                   field_schemas, workbook, sheet, row_index, headers, rows, vidx,
                   validation_reports>>

\* the step to the next row, or past the loop
NextRow ==
    /\ vidx' = vidx + 1
    /\ IF vidx < Len(rows)
       THEN pc' = "is_valid_1" /\ row_value' = rows[vidx + 1].obj
       ELSE pc' = "log" /\ UNCHANGED row_value

ValidateSecondAgain ==
    /\ pc = "is_valid_2"
    /\ IF is_valid(properties, required_fields, row_value)
       THEN NextRow
       ELSE /\ pc' = "coerce"
            /\ UNCHANGED <<vidx, row_value>>
    /\ UNCHANGED <<calls, remote, csv, variant, dict, error, properties, required_fields, dupResult,
                   field_schemas, workbook, sheet, row_index, headers, rows,
                   validation_reports>>

ValidateSecondAbort ==
    /\ pc = "is_valid_2"
    /\ IF is_valid(properties, required_fields, row_value)
       THEN NextRow /\ UNCHANGED <<error, validation_reports>>
       ELSE /\ pc' = "failed"
            /\ error' = "Validation failed"
            /\ validation_reports' = PushReport(validation_reports,
                   [row_number |-> rows[vidx].row_number,
                    errors |-> collect_validation_errors(variant, properties, required_fields,
                                   headers, row_value, rows[vidx].row_number),
                    row_data |-> row_value])
            /\ UNCHANGED <<vidx, row_value>>
    /\ UNCHANGED <<calls, remote, csv, variant, dict, properties, required_fields, dupResult,
                   field_schemas, workbook, sheet, row_index, headers, rows>>

\* validate_excel: the second is_valid of a row, the report of a row that is not valid,
\* and the step to the next row
ValidateSecond ==
    /\ pc = "is_valid_2"
    /\ validation_reports' =
           IF is_valid(properties, required_fields, row_value)
           THEN validation_reports
           ELSE PushReport(validation_reports,
                    [row_number |-> rows[vidx].row_number,
                     errors |-> collect_validation_errors(variant, properties, required_fields,
                                    headers, row_value, rows[vidx].row_number),
                     row_data |-> row_value])
    /\ NextRow
    /\ UNCHANGED <<calls, remote, csv, variant, dict, error, properties, required_fields, dupResult,
                   field_schemas, workbook, sheet, row_index, headers, rows>>

\* validate_excel: the log of the reports. importer-lib ignores a log that cannot be
\* written; src/model returns the error of write_error_log, which writes only when there
\* are reports
WriteLog ==
    /\ pc = "log"
    /\ \E written \in BOOLEAN :
        IF variant = "model" /\ validation_reports # <<>> /\ ~written
        THEN pc' = "failed" /\ error' = "error log not written" /\ UNCHANGED calls
        ELSE pc' = "done" /\ calls' = calls + 1 /\ UNCHANGED error
    /\ UNCHANGED <<remote, csv, variant, dict, properties, required_fields, dupResult,
                   field_schemas, workbook, sheet, row_index, headers, rows, vidx, row_value,
                   validation_reports>>

\* the mappings from header to dictionary name handed to export_to_csv
MappingInputs == {EmptyMap, [h \in {<<"s">>, <<"v">>} |-> h \o <<"_">>]}

\* export_to_csv, called on a validator whose rows are read: before validate_excel or
\* after it (the src/model validator reads the sheet again, to the same rows)
ExportCsv ==
    /\ \/ (pc = "rows" /\ row_index = Len(sheet))
       \/ pc = "done"
    /\ \E title_to_name_mapping \in MappingInputs :
          csv' = export_to_csv(variant, headers, rows, field_schemas, title_to_name_mapping)
    /\ UNCHANGED <<calls, remote, variant, dict, pc, error, properties, required_fields,
                   dupResult, field_schemas, workbook, sheet, row_index, headers, rows, vidx,
                   row_value, validation_reports>>

(***************************************************************************)
(* Inputs of the run                                                       *)
(***************************************************************************)
\* two columns: "n", a required integer, and "s", an optional text
RunFields ==
    <<Field(Some(<<"n">>), None, Some("integer"),
            Constraints("true", NoneNum, NoneNum, "absent")),
      Field(Some(<<"s">>), None, Some("string"), NoConstraints)>>

RunDictInputs ==
    {[has_fields |-> TRUE, fields |-> RunFields],
     [has_fields |-> FALSE, fields |-> <<>>],
     [has_fields |-> TRUE,
      fields |-> <<RunFields[1], Field(None, Some(<<"s">>), Some("string"), NoConstraints)>>],
     [has_fields |-> TRUE,
      fields |-> <<RunFields[1], Field(Some(<<"s">>), None, Some("string"),
                                       Constraints("absent", NoneNum, NoneNum, "bad"))>>]}

\* header rows: the two columns, the same header twice, a column the dictionary lacks
HeaderInputs ==
    {<<CString(<<"n">>), CString(<<TAB, "s">>)>>,
     <<CString(<<"n">>), CString(<<"n", " ">>)>>,
     <<CString(<<"n">>), CString(<<"x">>)>>}

\* data rows: valid as parsed, valid by coercion on reading, valid by the corrective
\* pass, not valid, blank, and with a comma
RowInputs ==
    {<<CInt(5), CString(<<"x">>)>>,
     <<CString(<<"5">>), CEmpty>>,
     <<CString(<<"x">>), CString(<<"x">>)>>,
     <<CInt(5), CInt(5)>>,
     <<CEmpty, CString(<<" ">>)>>,
     <<CEmpty, CString(<<"x">>)>>,
     <<CDurationIso(<<"5", ".", "0">>), CString(<<"x", ",", "x">>)>>,
     <<CInt(5), CString(<<"x", ",">>)>>}

SheetInputs ==
    {<<>>} \cup {<<h>> \o rs : h \in HeaderInputs, rs \in SeqsUpTo(RowInputs, MaxRows)}

Init ==
    /\ variant \in {"lib", "model"}
    /\ dict \in RunDictInputs
    /\ workbook \in {"ok", "file cannot be opened", "Error reading sheet"}
    /\ sheet \in SheetInputs
    /\ pc = "to_json_schema"
    /\ error = "none"
    /\ properties = EmptyMap
    /\ required_fields = <<>>
    /\ dupResult = NoDupResult
    /\ field_schemas = EmptyMap
    /\ row_index = 0
    /\ headers = <<>>
    /\ rows = <<>>
    /\ vidx = 0
    /\ row_value = EmptyMap
    /\ validation_reports = <<>>
    /\ csv = NoCsv
    /\ calls = 0
    /\ remote = NoRemote

Next ==
    \/ Convert
    \/ NewValidator
    \/ OpenWorkbook
    \/ ProcessRow
    \/ ValidateStart
    \/ ValidateFirst
    \/ Coerce
    \/ ValidateSecond
    \/ WriteLog
    \/ ExportCsv

Spec == Init /\ [][Next]_vars

(***************************************************************************)
(* Claims about the validation run                                         *)
(***************************************************************************)
\* the row as it stands when it is validated for the last time
Corrected(obj) ==
    IF is_valid(properties, required_fields, obj) THEN obj
    ELSE apply_intelligent_type_coercion(variant, field_schemas, obj)

\* the i-th parsed row is not valid, also after the corrective pass
RowFails(i) == ~is_valid(properties, required_fields, Corrected(rows[i].obj))

ReportedRowNumbers == {validation_reports[r].row_number : r \in 1..Len(validation_reports)}

\* C1: every row is first validated as parsed; the corrective pass runs only after that
\* validation failed, once, and is followed by one more validation, after which the run
\* moves on to the next row or past the loop: the pass is never entered a second time
\* for the same row.
C1_OnePassPerRow ==
    [][/\ (pc = "is_valid_1" => row_value = rows[vidx].obj)
       /\ (pc = "is_valid_1" /\ is_valid(properties, required_fields, row_value)
             => pc' = "is_valid_2" /\ row_value' = row_value /\ vidx' = vidx)
       /\ (pc' = "coerce"
             => /\ pc = "is_valid_1"
                /\ ~is_valid(properties, required_fields, row_value)
                /\ vidx' = vidx)
       /\ (pc = "coerce"
             => /\ pc' = "is_valid_2"
                /\ vidx' = vidx
                /\ row_value' = apply_intelligent_type_coercion(variant, field_schemas,
                                    rows[vidx].obj))
       /\ (pc = "is_valid_2"
             => /\ vidx' = vidx + 1
                /\ pc' \in {"is_valid_1", "log"})]_vars

\* the pass has run for a row, changed it, and the row is now validated again
C1_Witness ==
    /\ pc = "is_valid_2"
    /\ ~is_valid(properties, required_fields, rows[vidx].obj)
    /\ row_value # rows[vidx].obj
    /\ is_valid(properties, required_fields, row_value)

\* C2: a row that fails does not end the run: once validation has started it goes through
\* every parsed row, each failing row before the current one has its report, and the
\* reports of the rows that failed are all in the list at the end.
C2_FailuresAccumulate ==
    /\ \A i \in 1..Len(rows) :
          (i < vidx /\ RowFails(i)) => rows[i].row_number \in ReportedRowNumbers
    /\ (pc \in {"log", "done"} \/ (pc = "failed" /\ vidx > 0)) => vidx = Len(rows) + 1
    /\ pc \in {"is_valid_1", "coerce", "is_valid_2"} => vidx \in 1..Len(rows)
    /\ Cardinality({r \in 1..Len(validation_reports) :
                       validation_reports[r].errors[1].kind # "comma"})
         = Cardinality({i \in 1..Len(rows) : i < vidx /\ RowFails(i)})

\* the first row failed, the second row was validated and failed too, both are reported
C2_Witness ==
    /\ pc = "done"
    /\ Len(rows) = 2
    /\ RowFails(1)
    /\ RowFails(2)
    /\ {rows[1].row_number, rows[2].row_number} \subseteq ReportedRowNumbers

DuplicateHeaders ==
    /\ sheet # <<>>
    /\ \E i, j \in 1..Len(sheet[1]) :
          /\ i # j
          /\ lib_normalize_string(CellToString(sheet[1][i]))
               = lib_normalize_string(CellToString(sheet[1][j]))

\* the setup errors: a dictionary without fields or with a field without a name, a schema
\* the validator does not compile, a file or sheet that cannot be read, and, in
\* importer-lib, two headers that are the same after normalization
FatalSetupError ==
    \/ ~dict.has_fields
    \/ \E i \in 1..Len(dict.fields) : ~dict.fields[i].name.some
    \/ \E i \in 1..Len(dict.fields) :
          dict.fields[i].constraints.some /\ dict.fields[i].constraints.v.pattern = "bad"
    \/ workbook # "ok"
    \/ (variant = "lib" /\ DuplicateHeaders)

\* C3: with a setup error the run never reaches a data row: no row is parsed, coerced or
\* validated, no report is made, the run never completes, and where it has stopped it has
\* failed with its one error.
C3_FatalBeforeRows ==
    FatalSetupError =>
        /\ rows = <<>>
        /\ vidx = 0
        /\ row_value = EmptyMap
        /\ validation_reports = <<>>
        /\ pc \in {"to_json_schema", "schema", "open_workbook", "rows", "failed"}
        /\ (pc = "rows" => row_index = 0)
        /\ (pc = "failed" <=> error # "none")
        /\ (pc = "failed" => error # "The Excel file is empty")

\* importer-lib has stopped at the duplicate headers of a sheet that has data rows
C3_Witness ==
    /\ pc = "failed"
    /\ error = "Excel file contains duplicate column headers"
    /\ DuplicateHeaders
    /\ Len(sheet) > 1
    /\ ~is_empty_row(sheet[2])
    /\ rows = <<>>
    /\ validation_reports = <<>>

\* C4: a report is made only for a row that fails validation, that is, for a row that is
\* not valid as parsed and not valid after the corrective pass either; and each such row
\* that has been validated has a report.
C4_ReportIffRowFails ==
    \A i \in 1..Len(rows) :
        i < vidx => (rows[i].row_number \in ReportedRowNumbers <=> RowFails(i))

\* C5: the reports are in ascending order of row_number, which is the order of the rows
\* in the sheet; in importer-lib no two reports have the same row_number.
C5_ReportsAscending ==
    \A i, j \in 1..Len(validation_reports) :
        i < j =>
            /\ validation_reports[i].row_number <= validation_reports[j].row_number
            /\ (variant = "lib"
                  => validation_reports[i].row_number < validation_reports[j].row_number)

\* two rows have failed and the run is complete
C5_Witness ==
    /\ pc = "done"
    /\ Len(validation_reports) >= 2
    /\ validation_reports[1].row_number # validation_reports[Len(validation_reports)].row_number

\* the positions in the sheet (the header is row 1) of the data rows read so far that are
\* not blank
RECURSIVE NonBlankPositions(_)
NonBlankPositions(upto) ==
    IF upto < 2 THEN <<>>
    ELSE IF is_empty_row(sheet[upto]) THEN NonBlankPositions(upto - 1)
    ELSE Append(NonBlankPositions(upto - 1), upto)

\* C6: the header is row 1 and a parsed data row carries its own 1-based position in the
\* sheet, blank rows before it counted: the first data row is row 2, and the report of a
\* row and the path of each of its schema errors carry that same number.
C6_RowNumberIsSheetPosition ==
    /\ [k \in 1..Len(rows) |-> rows[k].row_number] = NonBlankPositions(row_index)
    /\ (Len(sheet) >= 2 /\ row_index >= 2 /\ ~is_empty_row(sheet[2])
          => rows[1].row_number = 2)
    /\ \A r \in 1..Len(validation_reports) :
          /\ \E k \in 1..Len(rows) :
                /\ rows[k].row_number = validation_reports[r].row_number
                /\ validation_reports[r].row_data \in {rows[k].obj, Corrected(rows[k].obj)}
          /\ \A e \in 1..Len(validation_reports[r].errors) :
                validation_reports[r].errors[e].kind # "comma"
                   => validation_reports[r].errors[e].row = validation_reports[r].row_number

\* row 2 is blank and skipped; the row after it is parsed and reported as row 3
C6_Witness ==
    /\ Len(sheet) = 3
    /\ is_empty_row(sheet[2])
    /\ Len(rows) = 1
    /\ rows[1].row_number = 3
    /\ Len(validation_reports) = 1
    /\ validation_reports[1].row_number = 3
    /\ validation_reports[1].errors # <<>>
    /\ validation_reports[1].errors[1].row = 3

(***************************************************************************)
(* The header duplicate check on its own                                   *)
(***************************************************************************)
MaxHeaders == 3

HeaderTextInputs ==
    {<<"a">>, <<"a", " ">>, <<TAB, "a">>, <<"b">>, <<"a", "*">>, <<"a", " ", "*">>, <<>>}

InitHdr ==
    /\ headers \in SeqsUpTo(HeaderTextInputs, MaxHeaders)
    /\ pc = "check_header_duplicates"
    /\ error = "none"
    /\ dict = [has_fields |-> FALSE, fields |-> <<>>]
    /\ properties = EmptyMap
    /\ required_fields = <<>>
    /\ variant = "lib"
    /\ dupResult = NoDupResult
    /\ field_schemas = EmptyMap
    /\ workbook = "ok"
    /\ sheet = <<>>
    /\ row_index = 0
    /\ rows = <<>>
    /\ vidx = 0
    /\ row_value = EmptyMap
    /\ validation_reports = <<>>
    /\ csv = NoCsv
    /\ calls = 0
    /\ remote = NoRemote

NextHdr == CheckHeaderDuplicates

SpecHdr == InitHdr /\ [][NextHdr]_vars

\* the columns whose header has the same normalized text as the header of column i
ColumnsLike(i) ==
    {j \in 1..Len(headers) :
        lib_normalize_string(headers[j]) = lib_normalize_string(headers[i])}

\* C11: the header check succeeds iff no normalized header occurs in more than one
\* column; its error names every header that occurs more than once with exactly the
\* 1-based columns it occurs in, and names no header that occurs once.
C11_HeaderDuplicates ==
    dupResult.done =>
        /\ (dupResult.err = "none") <=> (\A i \in 1..Len(headers) : ColumnsLike(i) = {i})
        /\ (dupResult.err = "none") <=> (pc = "checked")
        /\ \A i \in 1..Len(headers) :
              LET h == lib_normalize_string(headers[i]) IN
              IF Cardinality(ColumnsLike(i)) > 1
              THEN /\ h \in DOMAIN dupResult.names
                   /\ {dupResult.names[h][k] : k \in 1..Len(dupResult.names[h])}
                        = ColumnsLike(i)
                   /\ Len(dupResult.names[h]) = Cardinality(ColumnsLike(i))
              ELSE h \notin DOMAIN dupResult.names
        /\ \A h \in DOMAIN dupResult.names :
              \E i \in 1..Len(headers) : lib_normalize_string(headers[i]) = h

\* the header of columns 1 and 3 is the same after normalization only, the header of
\* column 2 occurs once: the error names the first with columns 1 and 3 and nothing else
C11_Witness ==
    /\ dupResult.done
    /\ pc = "failed"
    /\ headers = <<<<"a", " ", "*">>, <<"b">>, <<"a", "*">>>>
    /\ DOMAIN dupResult.names = {<<"a", "*">>}
    /\ dupResult.names[<<"a", "*">>] = <<1, 3>>

(***************************************************************************)
(* Normalization on its own: the header cell of a sheet of one column      *)
(***************************************************************************)
MaxTextLen == 4

TextInputs == SeqsUpTo({"a", "*", " ", TAB, SOH}, MaxTextLen)

InitNorm ==
    /\ variant \in {"lib", "model"}
    /\ \E x \in TextInputs : sheet = <<<<CString(x)>>>>
    /\ pc = "rows"
    /\ error = "none"
    /\ dict = [has_fields |-> FALSE, fields |-> <<>>]
    /\ properties = EmptyMap
    /\ required_fields = <<>>
    /\ dupResult = NoDupResult
    /\ field_schemas = EmptyMap
    /\ workbook = "ok"
    /\ row_index = 0
    /\ headers = <<>>
    /\ rows = <<>>
    /\ vidx = 0
    /\ row_value = EmptyMap
    /\ validation_reports = <<>>
    /\ csv = NoCsv
    /\ calls = 0
    /\ remote = NoRemote

NextNorm == ProcessRow

SpecNorm == InitNorm /\ [][NextNorm]_vars

\* the text of the header cell and, once the header row is read, its normalization
HeaderText == sheet[1][1].s
Normalized == headers[1]
Normalize(x) == IF variant = "lib" THEN lib_normalize_string(x) ELSE normalize_string(x)

\* C12: normalizing a normalized text changes nothing.
C12_Idempotent ==
    row_index = 1 => Normalize(Normalized) = Normalized

\* a text that normalization changes, in its trailing asterisks too, has been normalized
C12_Witness ==
    /\ row_index = 1
    /\ variant = "lib"
    /\ HeaderText = <<"a", " ", "*", TAB>>
    /\ Normalized = <<"a", "*">>

IsSeparator(c) == IsControl(c) \/ IsWhitespace(c)

\* the words of x joined by single spaces, read off x in one pass: every character that
\* is no separator, with one space before it where it begins a word after the first
RECURSIVE WordsJoinedFrom(_, _, _)
WordsJoinedFrom(x, i, out) ==
    IF i > Len(x) THEN out
    ELSE IF IsSeparator(x[i]) THEN WordsJoinedFrom(x, i + 1, out)
    ELSE IF out # <<>> /\ IsSeparator(x[i - 1])
         THEN WordsJoinedFrom(x, i + 1, out \o <<" ", x[i]>>)
    ELSE WordsJoinedFrom(x, i + 1, Append(out, x[i]))

WordsJoined(x) == WordsJoinedFrom(x, 1, <<>>)

\* w without the spaces of its trailing run of asterisks and spaces, when it ends with
\* an asterisk
WithoutSpacesBeforeTrailingAsterisks(w) ==
    IF w = <<>> \/ w[Len(w)] # "*" THEN w
    ELSE LET run == CHOOSE k \in 1..Len(w) :
                        /\ \A i \in (Len(w) - k + 1)..Len(w) : w[i] \in {"*", " "}
                        /\ (k = Len(w) \/ w[Len(w) - k] \notin {"*", " "})
             asterisks == Cardinality({i \in (Len(w) - run + 1)..Len(w) : w[i] = "*"})
         IN SubSeq(w, 1, Len(w) - run) \o [i \in 1..asterisks |-> "*"]

\* C13 as stated: the normalized text is the words of the text joined by single spaces.
C13_WordsJoinedBySpaces ==
    row_index = 1 => Normalized = WordsJoined(HeaderText)

\* C13: the normalized text is the words of the text joined by single spaces; the
\* normalize_string of importer-lib also removes, from a result that ends with an
\* asterisk, the spaces of its trailing run of asterisks and spaces.
C13_WordsJoinedAsterisksClosedUp ==
    row_index = 1 =>
        Normalized = IF variant = "lib"
                     THEN WithoutSpacesBeforeTrailingAsterisks(WordsJoined(HeaderText))
                     ELSE WordsJoined(HeaderText)

\* importer-lib has normalized a text with control characters, with spaces to collapse
\* and with a space before its trailing asterisk
C13_Witness ==
    /\ row_index = 1
    /\ variant = "lib"
    /\ HeaderText = <<SOH, "a", " ", "*">>
    /\ Normalized = <<"a", "*">>
    /\ WordsJoined(HeaderText) = <<"a", " ", "*">>

(***************************************************************************)
(* A dictionary of one field and a sheet whose header is the field's label *)
(***************************************************************************)
LookupFieldInputs ==
    {Field(Some(n), t, Some("string"), NoConstraints) :
        n \in {<<"n">>, <<"a", "*", SOH>>, <<"a", " ", "*">>},
        t \in {None, Some(<<"T">>), Some(<<"T", " ", "*">>)}}

\* the label a sheet is written with: the field's title, or its name without a title
LabelOf(field) == IF field.title.some THEN field.title.v ELSE field.name.v

InitLookup ==
    /\ variant \in {"lib", "model"}
    /\ \E f \in LookupFieldInputs :
          /\ dict = [has_fields |-> TRUE, fields |-> <<f>>]
          /\ \E cell \in {CString(<<"x">>), CInt(5), CEmpty} :
                sheet = <<<<CString(LabelOf(f))>>, <<cell>>>>
    /\ workbook = "ok"
    /\ pc = "to_json_schema"
    /\ error = "none"
    /\ properties = EmptyMap
    /\ required_fields = <<>>
    /\ dupResult = NoDupResult
    /\ field_schemas = EmptyMap
    /\ row_index = 0
    /\ headers = <<>>
    /\ rows = <<>>
    /\ vidx = 0
    /\ row_value = EmptyMap
    /\ validation_reports = <<>>
    /\ csv = NoCsv
    /\ calls = 0
    /\ remote = NoRemote

SpecLookup == InitLookup /\ [][Next]_vars

\* C14: a header cell with the text of a field's title, or of its name when it has no
\* title, is normalized to the key that field has in the schema's properties: the column
\* is found in the schema and no row is reported for an additional property.
C14_HeaderFindsProperty ==
    (pc \in {"rows", "is_valid_1", "coerce", "is_valid_2", "log", "done"} /\ row_index >= 1) =>
        /\ \A i \in 1..Len(dict.fields) : \A c \in 1..Len(sheet[1]) :
              CellToString(sheet[1][c]) = LabelOf(dict.fields[i])
                 => /\ headers[c] \in DOMAIN properties
                    /\ headers[c] = property_key(dict.fields[i])
        /\ \A r \in 1..Len(validation_reports) :
              \A e \in 1..Len(validation_reports[r].errors) :
                  validation_reports[r].errors[e].kind # "additionalProperties"

(***************************************************************************)
(* Claims about the conversion of cells                                    *)
(***************************************************************************)
\* column c is the last column with its header: its value is the one the row keeps
KeptColumn(c) ==
    /\ c <= Len(headers)
    /\ \A d \in (c + 1)..Len(headers) : headers[d] # headers[c]

\* C15: an Empty cell is Null in the parsed row, for a field that admits null, for a
\* field that does not, and for a column without a field schema; for a field that does
\* not admit null the row is then rejected by validation, with a type error at the field.
C15_EmptyIsNull ==
    \A k \in 1..Len(rows) :
        LET cells == sheet[rows[k].row_number] IN
        \A c \in 1..Len(cells) :
            (cells[c].d = "Empty" /\ KeptColumn(c)) =>
                /\ headers[c] \in DOMAIN rows[k].obj
                /\ rows[k].obj[headers[c]] = VNull
                /\ (k < vidx /\ headers[c] \in DOMAIN field_schemas
                      /\ ~AllowsNull(field_schemas[headers[c]]))
                     => \E r \in 1..Len(validation_reports) :
                           /\ validation_reports[r].row_number = rows[k].row_number
                           /\ validation_reports[r].row_data[headers[c]] = VNull
                           /\ \E e \in 1..Len(validation_reports[r].errors) :
                                 /\ validation_reports[r].errors[e].field = headers[c]
                                 /\ validation_reports[r].errors[e].kind = "type"

\* an Empty cell of the required integer column is Null in the parsed row and the row is
\* reported, while the same row's text cell is kept
C15_Witness ==
    /\ pc = "done"
    /\ headers = <<<<"n">>, <<"s">>>>
    /\ Len(sheet) = 2
    /\ sheet[2] = <<CEmpty, CString(<<"x">>)>>
    /\ rows[1].obj[<<"n">>] = VNull
    /\ ~AllowsNull(field_schemas[<<"n">>])
    /\ Len(validation_reports) = 1
    /\ validation_reports[1].row_data[<<"n">>] = VNull

(***************************************************************************)
(* A sheet of one text cell under a dictionary of one field                *)
(***************************************************************************)
CoerceFieldInputs ==
    {Field(Some(n), None, Some(ty), Constraints(req, b[1], b[2], "absent")) :
        n \in {<<"v">>, <<"v", "*">>},
        ty \in {"integer", "number", "boolean", "string"},
        req \in {"true", "absent"},
        b \in {<<NoneNum, NoneNum>>, <<Some(2), Some(5)>>, <<Some(2), NoneNum>>}}

CoerceTextInputs ==
    {<<"3">>, <<"7">>, <<"-", "3">>, <<"3", ".", "0">>, <<"7", ".", "0">>, <<"3", ".", "5">>,
     <<"7", ".", "5">>, <<" ", "3">>, <<"N", "a", "N">>, <<"i", "n", "f">>, <<"x">>,
     <<"y", "e", "s">>, <<"n", "u", "l", "l">>, <<" ">>, <<>>,
     <<"9", "9", "9">>, <<"9", "9", "9", ".", "0">>}

InitCoerce ==
    /\ variant \in {"lib", "model"}
    /\ \E f \in CoerceFieldInputs :
          /\ dict = [has_fields |-> TRUE, fields |-> <<f>>]
          /\ \E t \in CoerceTextInputs :
                sheet \in {<<<<CString(f.name.v)>>, <<CString(t)>>>>,
                           <<<<CString(f.name.v), CString(<<"x">>)>>, <<CString(t), CEmpty>>>>,
                           <<<<CString(f.name.v), CString(<<"x">>)>>, <<CEmpty, CString(t)>>>>,
                           <<<<CString(f.name.v), CString(<<"x">>)>>,
                             <<CString(t), CString(<<"a">>)>>>>}
    /\ workbook = "ok"
    /\ pc = "to_json_schema"
    /\ error = "none"
    /\ properties = EmptyMap
    /\ required_fields = <<>>
    /\ dupResult = NoDupResult
    /\ field_schemas = EmptyMap
    /\ row_index = 0
    /\ headers = <<>>
    /\ rows = <<>>
    /\ vidx = 0
    /\ row_value = EmptyMap
    /\ validation_reports = <<>>
    /\ csv = NoCsv
    /\ calls = 0
    /\ remote = NoRemote

SpecCoerce == InitCoerce /\ [][Next]_vars

\* the values a text cell of column c of the k-th parsed row has been given: on reading,
\* in the row under validation, and in the reports of the row
CoercedValues(k, c) ==
    {rows[k].obj[headers[c]]}
    \cup (IF vidx = k /\ pc \in {"is_valid_1", "coerce", "is_valid_2"}
          THEN {row_value[headers[c]]} ELSE {})
    \cup {validation_reports[r].row_data[headers[c]] :
             r \in {x \in 1..Len(validation_reports) :
                       validation_reports[x].row_number = rows[k].row_number}}

\* the text cells of the parsed rows that have a field schema: row, column
SchemaTextCells ==
    {kc \in (1..Len(rows)) \X (1..Len(headers)) :
        /\ kc[2] <= Len(sheet[rows[kc[1]].row_number])
        /\ sheet[rows[kc[1]].row_number][kc[2]].d = "String"
        /\ KeptColumn(kc[2])
        /\ headers[kc[2]] \in DOMAIN field_schemas}

CellText(kc) == sheet[rows[kc[1]].row_number][kc[2]].s

TypesOf(fs) ==
    IF fs.field_type.kind = "Mixed"
    THEN {fs.field_type.types[i] : i \in 1..Len(fs.field_type.types)}
    ELSE {fs.field_type.kind}

\* a number lies within the bounds of a field
InRange(v, fs) ==
    IF v.k = "int" THEN v.n >= fs.minimum.v /\ v.n <= fs.maximum.v
    ELSE v.n >= 10 * fs.minimum.v /\ v.n <= 10 * fs.maximum.v

\* C16: for an Integer or Number field with minimum and maximum, the value given to a
\* text cell is a number only if the number lies within the bounds, and a numeric text
\* whose value is outside the bounds is given back as the text it was.
C16_CoercionWithinBounds ==
    \A kc \in SchemaTextCells :
        LET fs == field_schemas[headers[kc[2]]]
            t == CellText(kc)
            f == ParseF64(t)
        IN (TypesOf(fs) \cap {"Integer", "Number"} # {} /\ fs.minimum.some /\ fs.maximum.some)
           => \A v \in CoercedValues(kc[1], kc[2]) :
                 /\ v.k \in {"int", "float"} => InRange(v, fs)
                 /\ (f.some /\ (f.v.cls # "finite"
                                \/ f.v.tenths < 10 * fs.minimum.v
                                \/ f.v.tenths > 10 * fs.maximum.v))
                      => v = VStr(t)

\* the text "7" of an integer field bounded by [2, 5] is still the text "7" in the
\* report of its row
C16_Witness ==
    /\ pc = "done"
    /\ sheet[2] = <<CString(<<"7">>)>>
    /\ headers = <<<<"v">>>>
    /\ field_schemas[<<"v">>].field_type = Scalar("Integer")
    /\ field_schemas[<<"v">>].minimum = Some(2)
    /\ field_schemas[<<"v">>].maximum = Some(5)
    /\ rows[1].obj[<<"v">>] = VStr(<<"7">>)
    /\ Len(validation_reports) = 1
    /\ validation_reports[1].row_data[<<"v">>] = VStr(<<"7">>)

\* a value is of a declared type
OfDeclaredType(v, kind) ==
    CASE kind = "Integer" -> v.k = "int"
      [] kind = "Number" -> v.k \in {"int", "float"}
      [] kind = "Boolean" -> v.k = "bool"
      [] kind = "String" -> v.k = "string"
      [] kind = "Null" -> v.k = "null"
      [] OTHER -> FALSE

\* C17: the value given to a text cell that is not blank is a value of a declared type
\* of its field or else the text itself, unchanged: never Null or another value in place
\* of a text that could not be coerced.
C17_SoftFailureKeepsText ==
    \A kc \in SchemaTextCells :
        LET fs == field_schemas[headers[kc[2]]]
            t == CellText(kc)
        IN Trim(t) # <<>> =>
              \A v \in CoercedValues(kc[1], kc[2]) :
                  \/ v = VStr(t)
                  \/ \E kind \in TypesOf(fs) : OfDeclaredType(v, kind)

(***************************************************************************)
(* Claims about the export                                                 *)
(***************************************************************************)
\* the rows of the sheet as process_excel_rows parses them, whatever happened since
ParsedFromSheet ==
    LET positions == NonBlankPositions(Len(sheet)) IN
    [k \in 1..Len(positions) |->
        [row_number |-> positions[k],
         obj |-> RowObject(field_schemas, headers, sheet[positions[k]], 1, EmptyMap)]]

\* C18: what export_to_csv writes is determined by the sheet alone: the file written
\* before validation, after a validation without failure and after a validation with
\* reports is the export of the rows as parsed, and validation with its corrective pass
\* leaves the parsed rows as they were read.
C18_ExportIndependentOfValidation ==
    /\ csv.written =>
          \E m \in MappingInputs :
              csv = export_to_csv(variant, headers, ParsedFromSheet, field_schemas, m)
    /\ (row_index = Len(sheet) /\ pc \in {"rows", "is_valid_1", "coerce", "is_valid_2",
                                          "log", "done"})
          => rows = ParsedFromSheet

\* the file is written, validation is complete with a report, and the corrective pass
\* had changed a value of a row it worked on
C18_Witness ==
    /\ pc = "done"
    /\ csv.written
    /\ validation_reports # <<>>
    /\ \E k \in 1..Len(rows) :
          /\ ~is_valid(properties, required_fields, rows[k].obj)
          /\ Corrected(rows[k].obj) # rows[k].obj
          /\ csv.records[k] # [c \in 1..Len(headers) |->
                                  csv_value(variant, field_schemas,
                                            Corrected(rows[k].obj), headers[c])]

\* a zero of 18 digits, 6 of them after the point
ZeroOf18Digits6Decimal == [i \in 1..19 |-> IF i = 13 THEN "." ELSE "0"]

\* the types the schema declares for a header, none for a header it does not have
DeclaredTypes(header) ==
    IF header \in DOMAIN properties
    THEN {properties[header].type[i] : i \in 1..Len(properties[header].type)}
    ELSE {}

\* C19: importer-lib writes a Null as the zero of 18 digits with 6 decimals under a
\* number field, as "0" under an integer field, and as empty text under every other
\* field and under a column without field schema.
C19_NullPlaceholders ==
    (csv.written /\ variant = "lib") =>
        \A k \in 1..Len(rows) : \A c \in 1..Len(headers) :
            (headers[c] \in DOMAIN rows[k].obj /\ rows[k].obj[headers[c]] = VNull) =>
                csv.records[k][c] =
                    IF "number" \in DeclaredTypes(headers[c]) THEN ZeroOf18Digits6Decimal
                    ELSE IF "integer" \in DeclaredTypes(headers[c]) THEN <<"0">>
                    ELSE <<>>

\* a row with a Null under an optional number field and a Null under a column without
\* field schema has been written
C19_Witness ==
    /\ csv.written
    /\ variant = "lib"
    /\ headers = <<<<"v">>, <<"x">>>>
    /\ DeclaredTypes(<<"v">>) = {"number", "null"}
    /\ Len(rows) = 1
    /\ rows[1].obj[<<"v">>] = VNull
    /\ rows[1].obj[<<"x">>] = VNull
    /\ csv.records[1] = <<NUMERIC_PLACEHOLDER, <<>>>>
(***************************************************************************)
(* The "(required field)" annotation                                       *)
(***************************************************************************)
\* the type mismatches that importer-lib reported for a property holding Null
NullTypeMismatches ==
    {<<k, j>> \in (1..Len(validation_reports)) \X (1..MaxHeaders) :
        /\ j <= Len(validation_reports[k].errors)
        /\ validation_reports[k].errors[j].kind = "type"
        /\ validation_reports[k].errors[j].field \in DOMAIN validation_reports[k].row_data
        /\ validation_reports[k].row_data[validation_reports[k].errors[j].field] = VNull}

\* C20: when a field holds Null and validation reports a type mismatch for it, the
\* expected text of the TypeMismatch error carries "(required field)" if and only if
\* the field is in the schema's required list.
C20_AnnotatedIffRequired ==
    variant = "lib" =>
        \A e \in NullTypeMismatches :
            validation_reports[e[1]].errors[e[2]].required_field
                <=> Contains(required_fields, validation_reports[e[1]].errors[e[2]].field)

(***************************************************************************)
(* A sheet with columns the dictionary does not have                       *)
(***************************************************************************)
ExtraHeaderInputs ==
    {<<"x">>, <<"y">>,
     <<"R", "e", "q", "u", "i", "r", "e", "d">>,
     <<"m", "a", "x", "i", "m", "u", "m">>,
     <<"i", "t", "'", "s">>}

InitExtra ==
    /\ variant \in {"lib", "model"}
    /\ dict = [has_fields |-> TRUE,
               fields |-> <<Field(Some(<<"v">>), None, Some("string"), NoConstraints)>>]
    /\ \E k1 \in ExtraHeaderInputs, k2 \in ExtraHeaderInputs, c \in {CString(<<"a">>), CInt(5)} :
          sheet \in {<<<<CString(<<"v">>), CString(k1)>>, <<CString(<<"a">>), c>>>>,
                     <<<<CString(<<"v">>), CString(k1)>>, <<c, CEmpty>>>>,
                     <<<<CString(<<"v">>), CString(k1), CString(k2)>>,
                       <<CString(<<"a">>), c, CEmpty>>>>}
    /\ workbook = "ok"
    /\ pc = "to_json_schema"
    /\ error = "none"
    /\ properties = EmptyMap
    /\ required_fields = <<>>
    /\ dupResult = NoDupResult
    /\ field_schemas = EmptyMap
    /\ row_index = 0
    /\ headers = <<>>
    /\ rows = <<>>
    /\ vidx = 0
    /\ row_value = EmptyMap
    /\ validation_reports = <<>>
    /\ csv = NoCsv
    /\ calls = 0
    /\ remote = NoRemote

SpecExtra == InitExtra /\ [][Next]_vars

\* the keys of a reported row that the schema does not declare
UndeclaredKeys(report) == DOMAIN report.row_data \ DOMAIN properties

\* the errors of a report that are AdditionalProperties errors
AdditionalPropertiesErrors(report) ==
    {j \in 1..Len(report.errors) : report.errors[j].kind = "additionalProperties"}

\* C21: every validation failure caused by row keys that the schema does not declare is
\* reported as an AdditionalProperties error that lists exactly the rejected key names,
\* whatever text those names contain.
C21_AdditionalPropertiesListed ==
    \A k \in 1..Len(validation_reports) :
        UndeclaredKeys(validation_reports[k]) # {} =>
            \E j \in AdditionalPropertiesErrors(validation_reports[k]) :
                {validation_reports[k].errors[j].properties[n] :
                    n \in 1..Len(validation_reports[k].errors[j].properties)}
                  = UndeclaredKeys(validation_reports[k])

(***************************************************************************)
(* Claims about the corrective pass                                        *)
(***************************************************************************)
\* the field has a field schema whose type is String or a union with String
TextExpected(key) ==
    /\ key \in DOMAIN field_schemas
    /\ \/ field_schemas[key].field_type = Scalar("String")
       \/ /\ field_schemas[key].field_type.kind = "Mixed"
          /\ \E i \in 1..Len(field_schemas[key].field_type.types) :
                field_schemas[key].field_type.types[i] = "String"

\* C22: the corrective pass changes only fields whose current value is a string and
\* whose key has a known FieldSchema; every non-string value and every field without a
\* FieldSchema is left exactly as it was.
C22_OnlySchemaStringsChange ==
    [][pc = "coerce" =>
          /\ DOMAIN row_value' = DOMAIN row_value
          /\ \A key \in DOMAIN row_value :
                (row_value[key].k # "string" \/ key \notin DOMAIN field_schemas)
                    => row_value'[key] = row_value[key]]_vars

\* C22, amended: the corrective pass leaves every field without a FieldSchema and every
\* Null as it was; a number or boolean is changed only by importer-lib and only where
\* the field's type is String or a union with String, and then into a string.
C22_OnlySchemaFieldsChange ==
    [][pc = "coerce" =>
          /\ DOMAIN row_value' = DOMAIN row_value
          /\ \A key \in DOMAIN row_value :
                /\ (key \notin DOMAIN field_schemas \/ row_value[key] = VNull)
                      => row_value'[key] = row_value[key]
                /\ (row_value[key].k # "string" /\ row_value'[key] # row_value[key])
                      => /\ variant = "lib"
                         /\ TextExpected(key)
                         /\ row_value[key].k \in {"int", "float", "bool"}
                         /\ row_value'[key].k = "string"]_vars

\* importer-lib's pass has turned the integer 5 under the string field s into the text
\* "5" and left the integer under the integer field n alone
C22_Witness ==
    /\ pc = "is_valid_2"
    /\ variant = "lib"
    /\ headers = <<<<"n">>, <<"s">>>>
    /\ rows[vidx].obj = [key \in {<<"n">>, <<"s">>} |-> VInt(5)]
    /\ row_value = [key \in {<<"n">>, <<"s">>} |->
                        IF key = <<"s">> THEN VStr(<<"5">>) ELSE VInt(5)]

(***************************************************************************)
(* Claims about empty texts                                                *)
(***************************************************************************)
\* C23: an empty or whitespace-only string cell is Null in the parsed row if and only if
\* the type of its field allows null; otherwise, and in a column without field schema,
\* it is the original string, not trimmed.
C23_BlankTextIsNullIffNullable ==
    \A k \in 1..Len(rows) :
        LET cells == sheet[rows[k].row_number] IN
        \A c \in 1..Len(cells) :
            (cells[c].d = "String" /\ Trim(cells[c].s) = <<>> /\ KeptColumn(c)) =>
                /\ headers[c] \in DOMAIN rows[k].obj
                /\ rows[k].obj[headers[c]] =
                      IF "null" \in DeclaredTypes(headers[c]) THEN VNull
                      ELSE VStr(cells[c].s)

\* a cell with one space was read under a field that admits null, and under one that
\* does not
C23_Witness ==
    /\ Len(rows) = 1
    /\ Len(headers) = 2
    /\ sheet[2][1] = CString(<<" ">>)
    /\ \/ "null" \in DeclaredTypes(headers[1]) /\ rows[1].obj[headers[1]] = VNull
       \/ /\ DeclaredTypes(headers[1]) = {"string"}
          /\ rows[1].obj[headers[1]] = VStr(<<" ">>)

(***************************************************************************)
(* The corrective pass on one text under one field schema                  *)
(***************************************************************************)
MaxUnion == 3

\* the field types: the scalar types and the unions of up to MaxUnion different types
TypeNames == {"Integer", "Number", "Boolean", "String", "Null"}

FieldTypeInputs ==
    {Scalar(kind) : kind \in TypeNames \ {"Null"}}
    \cup {Mixed(types) : types \in {ts \in SeqsUpTo(TypeNames, MaxUnion) :
                                        /\ Len(ts) >= 2
                                        /\ \A i, j \in 1..Len(ts) : i # j => ts[i] # ts[j]}}

PassTextInputs ==
    {<<"3">>, <<"7">>, <<"3", ".", "0">>, <<"3", ".", "5">>, <<"1">>, <<"y", "e", "s">>,
     <<"n", "u", "l", "l">>, <<"x">>}

InitPass ==
    /\ variant \in {"lib", "model"}
    /\ dict = [has_fields |-> FALSE, fields |-> <<>>]
    /\ \E ft \in FieldTypeInputs, b \in {<<NoneNum, NoneNum>>, <<Some(2), Some(5)>>} :
          field_schemas = [key \in {<<"v">>} |->
                              [field_type |-> ft, minimum |-> b[1], maximum |-> b[2],
                               pattern |-> "absent"]]
    /\ \E t \in PassTextInputs :
          /\ sheet = <<<<CString(<<"v">>)>>, <<CString(t)>>>>
          /\ rows = <<[row_number |-> 2, obj |-> [key \in {<<"v">>} |-> VStr(t)]]>>
          /\ row_value = [key \in {<<"v">>} |-> VStr(t)]
    /\ workbook = "ok"
    /\ pc = "coerce"
    /\ error = "none"
    /\ properties = EmptyMap
    /\ required_fields = <<>>
    /\ dupResult = NoDupResult
    /\ row_index = 2
    /\ headers = <<<<"v">>>>
    /\ vidx = 1
    /\ validation_reports = <<>>
    /\ csv = NoCsv
    /\ calls = 0
    /\ remote = NoRemote

NextPass == Coerce

SpecPass == InitPass /\ [][NextPass]_vars

\* the text the pass started from, its field schema and its result
PassText == rows[1].obj[<<"v">>].s
PassSchema == field_schemas[<<"v">>]
PassResult == row_value[<<"v">>]

\* the order of the claim, and the positions in it of the union's members that accept
\* their conversion of the text
OrderOfTrial == <<"Integer", "Number", "Boolean", "String">>

AcceptedTrials ==
    {i \in 1..Len(OrderOfTrial) :
        /\ \E m \in 1..Len(PassSchema.field_type.types) :
              PassSchema.field_type.types[m] = OrderOfTrial[i]
        /\ LET converted == coerce_scalar(PassText, OrderOfTrial[i], PassSchema) IN
           IF OrderOfTrial[i] = "String" THEN converted.k = "string"
           ELSE converted.k # "string"}

FirstAccepted == CHOOSE i \in AcceptedTrials : \A j \in AcceptedTrials : i <= j

\* C24: for a union-typed field the result is the first accepted conversion in the
\* order Integer, Number, Boolean, String among the members of the union, and the
\* original string if no type is accepted.
C24_FirstAcceptedOrText ==
    (pc = "is_valid_2" /\ PassSchema.field_type.kind = "Mixed") =>
        PassResult = IF AcceptedTrials # {}
                     THEN coerce_scalar(PassText, OrderOfTrial[FirstAccepted], PassSchema)
                     ELSE VStr(PassText)

\* C24, amended: as C24, but when none of the four types is accepted and the union has
\* Null, a text that is a null literal becomes Null; otherwise the original string is
\* returned.
C24_FirstAcceptedOrNullOrText ==
    (pc = "is_valid_2" /\ PassSchema.field_type.kind = "Mixed") =>
        PassResult = IF AcceptedTrials # {}
                     THEN coerce_scalar(PassText, OrderOfTrial[FirstAccepted], PassSchema)
                     ELSE IF /\ \E m \in 1..Len(PassSchema.field_type.types) :
                                   PassSchema.field_type.types[m] = "Null"
                             /\ PassText = <<"n", "u", "l", "l">>
                          THEN VNull
                          ELSE VStr(PassText)

\* the text "1" under the union of Boolean and Number has become the number 1, not true
C24_Witness ==
    /\ pc = "is_valid_2"
    /\ PassSchema.field_type = Mixed(<<"Boolean", "Number">>)
    /\ PassText = <<"1">>
    /\ PassResult = VInt(1)

(***************************************************************************)
(* Claims about the numbers that coercion produces                         *)
(***************************************************************************)
\* a number in the model's units: tenths
Tenths(v) == IF v.k = "int" THEN 10 * v.n ELSE v.n

\* C25: a number given to a text cell of an Integer or Number field violates no bound
\* the field declares, whether the field declares both bounds or only one of them.
C25_CoercionRespectsEachBound ==
    \A kc \in SchemaTextCells :
        LET fs == field_schemas[headers[kc[2]]] IN
        TypesOf(fs) \cap {"Integer", "Number"} # {} =>
            \A v \in CoercedValues(kc[1], kc[2]) :
                v.k \in {"int", "float"} =>
                    /\ fs.minimum.some => Tenths(v) >= 10 * fs.minimum.v
                    /\ fs.maximum.some => Tenths(v) <= 10 * fs.maximum.v

\* C26: an integer given to a numeric text cell equals the number the text denotes; a
\* text whose number lies outside the range of i64 is never given another integer.
C26_IntegerEqualsText ==
    \A kc \in SchemaTextCells :
        LET f == ParseF64(CellText(kc)) IN
        (f.some /\ f.v.cls = "finite") =>
            \A v \in CoercedValues(kc[1], kc[2]) :
                v.k = "int" => 10 * v.n = f.v.tenths

(***************************************************************************)
(* Claims about the list of reports                                        *)
(***************************************************************************)
\* the reports of one row of the sheet
ReportsOfRow(row_number) ==
    {r \in 1..Len(validation_reports) : validation_reports[r].row_number = row_number}

\* the parsed rows that are not valid, also after the corrective pass
FailingRows == {i \in 1..Len(rows) : RowFails(i)}

\* C27: within one validation run each data row contributes at most one report: the
\* number of reports never exceeds the number of parsed rows, and after the last row it
\* is the number of failing rows.
C27_OneReportPerFailingRow ==
    /\ \A i \in 1..Len(rows) : Cardinality(ReportsOfRow(rows[i].row_number)) <= 1
    /\ Len(validation_reports) <= Len(rows)
    /\ pc \in {"log", "done"} => Len(validation_reports) = Cardinality(FailingRows)

(***************************************************************************)
(* validate_excel called again on the same validator                       *)
(***************************************************************************)
MaxCalls == 2

\* validate_excel once more, after a call that returned Ok: the rows are those of the
\* first call (src/model reads the sheet again, to the same rows) and the list of reports
\* is the one the earlier calls left
ValidateAgain ==
    /\ pc = "done"
    /\ calls < MaxCalls
    /\ pc' = "is_valid_1"
    /\ vidx' = 1
    /\ row_value' = rows[1].obj
    /\ UNCHANGED <<calls, remote, csv, variant, dict, error, properties, required_fields,
                   dupResult, field_schemas, workbook, sheet, row_index, headers, rows,
                   validation_reports>>

NextAgain == Next \/ ValidateAgain

SpecAgain == Init /\ [][NextAgain]_vars

\* C28: after any number of calls of validate_excel the list of reports holds exactly
\* one report for each failing row of the sheet, and none for another row.
C28_CallsDoNotDuplicate ==
    pc = "done" =>
        \A i \in 1..Len(rows) :
            Cardinality(ReportsOfRow(rows[i].row_number)) = IF RowFails(i) THEN 1 ELSE 0

(***************************************************************************)
(* The corrective pass applied to its own result                           *)
(***************************************************************************)
\* the pass, applied to the row it has produced
PassAgain == apply_intelligent_type_coercion(variant, field_schemas, row_value)

\* C29: the corrective pass is idempotent: applied to its own result it changes
\* nothing, for every text and every field schema.
C29_PassIdempotent ==
    pc = "is_valid_2" => PassAgain = row_value

\* C29, amended: the pass applied to its own result changes nothing, except in
\* importer-lib where the field's type is String or a union with String and the first
\* pass made a number or boolean of the text: the second pass turns that value into
\* text again.
C29_PassIdempotentUnlessTextExpected ==
    pc = "is_valid_2" =>
        IF variant = "lib" /\ TextExpected(<<"v">>) /\ PassResult.k \in {"int", "float", "bool"}
        THEN PassAgain[<<"v">>].k = "string"
        ELSE PassAgain = row_value

\* the text "3" under an Integer field has become the number 3, which a second pass
\* leaves alone
C29_Witness ==
    /\ pc = "is_valid_2"
    /\ PassSchema.field_type = Scalar("Integer")
    /\ PassText = <<"3">>
    /\ PassResult = VInt(3)
    /\ PassAgain = row_value

(***************************************************************************)
(* main: validation, then export, upload and registration                  *)
(***************************************************************************)
MainMatchAlways ==
    /\ pc = "done"
    /\ pc' = "export_to_csv"
    /\ UNCHANGED <<calls, remote, csv, variant, dict, error, properties, required_fields,
                   dupResult, field_schemas, workbook, sheet, row_index, headers, rows, vidx,
                   row_value, validation_reports>>

\* main: the match on the result of validate_excel; Ok with reports ends the process
\* with exit code 1, as does Err (the pipeline is then at "failed")
MainMatch ==
    /\ pc = "done"
    /\ pc' = IF validation_reports = <<>> THEN "export_to_csv" ELSE "exit_1"
    /\ UNCHANGED <<calls, remote, csv, variant, dict, error, properties, required_fields,
                   dupResult, field_schemas, workbook, sheet, row_index, headers, rows, vidx,
                   row_value, validation_reports>>

\* main: export_to_csv; its Err makes main panic
MainExport ==
    /\ pc = "export_to_csv"
    /\ \E ok \in BOOLEAN :
          IF ok
          THEN /\ \E title_to_name_mapping \in MappingInputs :
                     csv' = export_to_csv(variant, headers, rows, field_schemas,
                                          title_to_name_mapping)
               /\ pc' = "upload"
          ELSE pc' = "panicked" /\ UNCHANGED csv
    /\ UNCHANGED <<calls, remote, variant, dict, error, properties, required_fields,
                   dupResult, field_schemas, workbook, sheet, row_index, headers, rows, vidx,
                   row_value, validation_reports>>

\* main: upload_distribution_csv_file, whose Err main returns
MainUpload ==
    /\ pc = "upload"
    /\ \E ok \in BOOLEAN :
          IF ok
          THEN remote' = [remote EXCEPT !.uploaded = TRUE] /\ pc' = "add_distribution"
          ELSE pc' = "returned_err" /\ UNCHANGED remote
    /\ UNCHANGED <<calls, csv, variant, dict, error, properties, required_fields,
                   dupResult, field_schemas, workbook, sheet, row_index, headers, rows, vidx,
                   row_value, validation_reports>>

\* main: dataset_add_distribution, whose Err main returns
MainAddDistribution ==
    /\ pc = "add_distribution"
    /\ \E ok \in BOOLEAN :
          IF ok
          THEN remote' = [remote EXCEPT !.distribution = TRUE] /\ pc' = "finished"
          ELSE pc' = "returned_err" /\ UNCHANGED remote
    /\ UNCHANGED <<calls, csv, variant, dict, error, properties, required_fields,
                   dupResult, field_schemas, workbook, sheet, row_index, headers, rows, vidx,
                   row_value, validation_reports>>

\* main uses the validator of src/model
InitMain == Init /\ variant = "model"

NextMain ==
    \/ Convert
    \/ NewValidator
    \/ OpenWorkbook
    \/ ProcessRow
    \/ ValidateStart
    \/ ValidateFirst
    \/ Coerce
    \/ ValidateSecond
    \/ WriteLog
    \/ MainMatch
    \/ MainExport
    \/ MainUpload
    \/ MainAddDistribution

SpecMain == InitMain /\ [][NextMain]_vars

\* C30: the CSV is exported, uploaded and registered as a distribution only after a
\* validation that returned Ok with an empty list of reports, in that order; after a
\* validation with a report or a fatal error nothing is exported, uploaded or registered.
C30_PublishOnlyAfterCleanValidation ==
    /\ (csv.written \/ remote.uploaded \/ remote.distribution)
          => (calls = 1 /\ validation_reports = <<>> /\ error = "none")
    /\ remote.uploaded => csv.written
    /\ remote.distribution => remote.uploaded
    /\ (validation_reports # <<>> \/ pc \in {"failed", "exit_1"})
          => (csv = NoCsv /\ remote = NoRemote)

\* a sheet without failing row has been exported, uploaded and registered
C30_Witness ==
    /\ pc = "finished"
    /\ validation_reports = <<>>
    /\ Len(rows) >= 1
    /\ csv.written
    /\ remote = [uploaded |-> TRUE, distribution |-> TRUE]

====
